---------------------------- MODULE Spec2Model ----------------------------
(***************************************************************************)
(* A model of the table-extraction core of magk-excel                      *)
(* (apps/server/chalicelib/pdf_extractor.py): the cell normaliser, the     *)
(* table validator, anchored segmentation and the two-step candidate       *)
(* matcher that consults the reasoning service.                            *)
(*                                                                         *)
(* Text is modelled as a sequence of one-character strings, so that the    *)
(* string functions and regular expressions of the source are computed     *)
(* character by character, the way the source computes them.               *)
(***************************************************************************)
EXTENDS Integers, Sequences, FiniteSets, TLC

VARIABLES
    \* cell normaliser (PDFExtractor._normalize_number_format)
    normPc, cell, normalized, renormalized,
    \* table validator (PDFExtractor._validate_table_has_numerical_data)
    validPc, table_data, min_numerical_threshold, probe, valid, meaningful,
    \* anchored extraction (PDFExtractor.extract_table_data)
    anchorPc, opened, text_content, table_identifier, found, outcome,
    \* match requests (PDFExtractor.extract_tables_with_llm)
    requests, source, prompt, client, service,
    pc, candidates, sent, reply, matching, result, calls,
    \* row classification (PDFExtractor._is_potential_header)
    headerPc, header_row, potential_header, date_header,
    \* bulk extraction (PDFExtractor.extract_all_tables_from_pdf)
    bulkPc, use_pdfplumber, bulk_source, bulk_text, bulk_tables,
    \* the Excel file registry (ExcelFilePersistenceManager)
    excel_registry, metadata_file, disk, sync_lock, needs_sync, clock,
    filePc, held, returned, sync_events, calls_left,
    _sync_monitor_active, monitor_stopped, shutdownPc,
    \* line parsing (PDFExtractor._parse_table_lines, _parse_table_row)
    parsePc, parse_lines, parsed_table, row_line, parsed_row,
    \* the web extractor (sanitize_data, WebExtractor.extract_table)
    sanPc, raw_data, sanitized,
    webPc, driver, _active_drivers, drivers_made, setup_tries,
    plan_of_starts, quit_fails, cleanups,
    web_result, extractions

normVars == <<normPc, cell, normalized, renormalized>>

validVars ==
    <<validPc, table_data, min_numerical_threshold, probe, valid, meaningful>>

anchorVars == <<anchorPc, opened, text_content, table_identifier, found, outcome>>

matchVars ==
    <<requests, source, prompt, client, service,
      pc, candidates, sent, reply, matching, result, calls>>

headerVars == <<headerPc, header_row, potential_header, date_header>>

bulkVars == <<bulkPc, use_pdfplumber, bulk_source, bulk_text, bulk_tables>>

fileVars ==
    <<excel_registry, metadata_file, disk, sync_lock, needs_sync, clock,
      filePc, held, returned, sync_events, calls_left,
      _sync_monitor_active, monitor_stopped, shutdownPc>>

parseVars == <<parsePc, parse_lines, parsed_table, row_line, parsed_row>>

webVars ==
    <<sanPc, raw_data, sanitized,
      webPc, driver, _active_drivers, drivers_made, setup_tries,
      plan_of_starts, quit_fails, cleanups,
      web_result, extractions>>

vars ==
    <<normVars, validVars, anchorVars, matchVars, headerVars, bulkVars, fileVars,
      parseVars, webVars>>

-----------------------------------------------------------------------------
(* Characters and the Python string primitives the source relies on.       *)

Digits == {"0", "1", "2", "3", "4", "5", "6", "7", "8", "9"}

LowerLetters ==
    <<"a", "b", "c", "d", "e", "f", "g", "h", "i", "j", "k", "l", "m",
      "n", "o", "p", "q", "r", "s", "t", "u", "v", "w", "x", "y", "z">>

UpperLetters ==
    <<"A", "B", "C", "D", "E", "F", "G", "H", "I", "J", "K", "L", "M",
      "N", "O", "P", "Q", "R", "S", "T", "U", "V", "W", "X", "Y", "Z">>

Range(f) == {f[i] : i \in DOMAIN f}

\* str.isspace for one character (the whitespace str.strip and \s remove)
Whitespace == {" ", "\t", "\n", "\r", "\f"}

\* the character class [\$€£¥] of the source's regular expressions
CurrencySymbols == {"$", "€", "£", "¥"}

isdigit(c) == c \in Digits

isalpha(c) == c \in Range(LowerLetters) \cup Range(UpperLetters)

isalnum(c) == isdigit(c) \/ isalpha(c)

\* \w of the re module: the characters between which \b sees no boundary
IsWordChar(c) == isalnum(c) \/ c = "_"

\* str.lower, one character
LowerChar(c) ==
    IF c \in Range(UpperLetters)
    THEN LowerLetters[CHOOSE i \in DOMAIN UpperLetters : UpperLetters[i] = c]
    ELSE c

\* str.lower
lower(s) == [i \in DOMAIN s |-> LowerChar(s[i])]

\* first index j >= i whose character is outside S (Len(s)+1 when none):
\* where a greedy run S* that starts at i stops
SkipWhile(s, i, S) ==
    CHOOSE j \in i..(Len(s) + 1) :
        /\ (j = Len(s) + 1 \/ s[j] \notin S)
        /\ \A k \in i..(j - 1) : s[k] \in S

\* str.strip
strip(s) ==
    IF \A i \in DOMAIN s : s[i] \in Whitespace
    THEN <<>>
    ELSE LET first == CHOOSE i \in DOMAIN s :
                          s[i] \notin Whitespace
                          /\ \A k \in 1..(i - 1) : s[k] \in Whitespace
             last  == CHOOSE i \in DOMAIN s :
                          s[i] \notin Whitespace
                          /\ \A k \in (i + 1)..Len(s) : s[k] \in Whitespace
         IN  SubSeq(s, first, last)

\* re.sub(r'[...]', '', s) for a character class
RemoveChars(s, S) == SelectSeq(s, LAMBDA c : c \notin S)

\* `needle in s` for strings
Contains(s, needle) ==
    \E i \in 1..(Len(s) - Len(needle) + 1) :
        SubSeq(s, i, i + Len(needle) - 1) = needle

startswith(s, c) == Len(s) >= 1 /\ s[1] = c

endswith(s, c) == Len(s) >= 1 /\ s[Len(s)] = c

\* \b right after position j (s[j] is a word character)
BoundaryAfter(s, j) == j = Len(s) \/ ~IsWordChar(s[j + 1])

\* \b right before position i (s[i] is a word character)
BoundaryBefore(s, i) == i = 1 \/ ~IsWordChar(s[i - 1])

-----------------------------------------------------------------------------
(* float(text): the decimal literals Python accepts, that is optional      *)
(* surrounding whitespace, an optional sign, digits with at most one       *)
(* decimal point and an optional exponent, or inf / infinity / nan.        *)
(* (Digit-group underscores are not modelled; no modelled cell has one.)   *)

AllDigits(s) == Len(s) >= 1 /\ \A i \in DOMAIN s : isdigit(s[i])

Unsigned(s) == IF Len(s) >= 1 /\ s[1] \in {"+", "-"} THEN Tail(s) ELSE s

DecimalLiteral(s) ==
    /\ \A i \in DOMAIN s : isdigit(s[i]) \/ s[i] = "."
    /\ \E i \in DOMAIN s : isdigit(s[i])
    /\ Cardinality({i \in DOMAIN s : s[i] = "."}) <= 1

FloatLiteral(s) ==
    \/ DecimalLiteral(s)
    \/ \E e \in DOMAIN s :
          /\ s[e] \in {"e", "E"}
          /\ DecimalLiteral(SubSeq(s, 1, e - 1))
          /\ AllDigits(Unsigned(SubSeq(s, e + 1, Len(s))))

PyFloat(text) ==
    LET body == Unsigned(strip(text))
    IN  \/ FloatLiteral(body)
        \/ lower(body) \in { <<"i", "n", "f">>, <<"n", "a", "n">>,
                             <<"i", "n", "f", "i", "n", "i", "t", "y">> }

-----------------------------------------------------------------------------
(* The cell normaliser.                                                    *)

_contains_number(text) == \E i \in DOMAIN text : isdigit(text[i])

_is_number(text) == PyFloat(RemoveChars(strip(text), CurrencySymbols \cup {"%"}))

\* re.search(r'([\d,]+\.?\d*)%', s) tried at start position i: the index of
\* the '%' that ends the match, 0 when there is no match at i
PercentMatchAt(s, i) ==
    IF ~(isdigit(s[i]) \/ s[i] = ",")
    THEN 0
    ELSE LET j1 == SkipWhile(s, i, Digits \cup {","})
             j2 == IF j1 <= Len(s) /\ s[j1] = "." THEN j1 + 1 ELSE j1
             j3 == SkipWhile(s, j2, Digits)
         IN  IF j3 <= Len(s) /\ s[j3] = "%" THEN j3 ELSE 0

\* the leftmost start of a match, 0 when the search finds nothing
PercentMatchStart(s) ==
    IF \E i \in DOMAIN s : PercentMatchAt(s, i) # 0
    THEN CHOOSE i \in DOMAIN s :
            /\ PercentMatchAt(s, i) # 0
            /\ \A k \in 1..(i - 1) : PercentMatchAt(s, k) = 0
    ELSE 0

\* re.search(r'\b\d+\.?\d*\s*m\b', s, re.IGNORECASE) is not None
MillionSuffixFound(s) ==
    \E i \in DOMAIN s :
        /\ isdigit(s[i])
        /\ BoundaryBefore(s, i)
        /\ LET j1 == SkipWhile(s, i, Digits)
               j2 == IF j1 <= Len(s) /\ s[j1] = "." THEN j1 + 1 ELSE j1
               j3 == SkipWhile(s, j2, Digits)
               j4 == SkipWhile(s, j3, Whitespace)
           IN  /\ j4 <= Len(s)
               /\ LowerChar(s[j4]) = "m"
               /\ BoundaryAfter(s, j4)

\* re.sub(r'\s*<word>\b', '', s, flags=re.IGNORECASE) from position i on:
\* every leftmost non-overlapping match is deleted
RECURSIVE RemoveWordFrom(_, _, _)
RemoveWordFrom(s, i, word) ==
    IF i > Len(s)
    THEN <<>>
    ELSE LET j    == SkipWhile(s, i, Whitespace)
             last == j + Len(word) - 1
         IN  IF /\ last <= Len(s)
                /\ lower(SubSeq(s, j, last)) = word
                /\ BoundaryAfter(s, last)
             THEN RemoveWordFrom(s, last + 1, word)
             ELSE <<s[i]>> \o RemoveWordFrom(s, i + 1, word)

RemoveWord(s, word) == RemoveWordFrom(s, 1, word)

Million == <<"m", "i", "l", "l", "i", "o", "n">>

\* lines 763-777: the plain-number rule, applied to the stripped cell
PlainNumber(original_cell) ==
    LET cleaned0 == RemoveChars(original_cell, CurrencySymbols \cup {","})
        cleaned_cell ==
            IF MillionSuffixFound(cleaned0)
            THEN RemoveWord(cleaned0, <<"m">>)
            ELSE IF Contains(lower(cleaned0), Million)
                 THEN RemoveWord(cleaned0, Million)
                 ELSE cleaned0
    IN  IF _is_number(cleaned_cell) THEN cleaned_cell ELSE original_cell

\* lines 738-751: the percent rule, applied to the stripped cell
PercentCell(original_cell) ==
    IF startswith(original_cell, "(") /\ endswith(original_cell, ")")
    THEN original_cell
    ELSE LET i == PercentMatchStart(original_cell)
         IN  IF i # 0
             THEN RemoveChars(SubSeq(original_cell, i,
                                     PercentMatchAt(original_cell, i) - 1), {","})
                      \o <<"%">>
             ELSE original_cell

\* the interior of a parenthesised cell with its commas left in
InteriorKeepsCommas(original_cell) ==
    RemoveChars(SubSeq(original_cell, 2, Len(original_cell) - 1), CurrencySymbols)

\* lines 754-757: the interior of a parenthesised cell, symbols removed
AccountingInterior(original_cell) ==
    RemoveChars(SubSeq(original_cell, 2, Len(original_cell) - 1),
                CurrencySymbols \cup {","})

_normalize_number_format(c) ==
    IF c = <<>> \/ strip(c) = <<>>
    THEN c
    ELSE LET original_cell == strip(c)
         IN  IF original_cell = <<"-">>
             THEN <<"0">>
             ELSE IF "%" \in Range(original_cell)
             THEN PercentCell(original_cell)
             ELSE IF /\ startswith(original_cell, "(")
                     /\ endswith(original_cell, ")")
                     /\ _is_number(AccountingInterior(original_cell))
             THEN <<"-">> \o AccountingInterior(original_cell)
             ELSE IF _contains_number(original_cell)
             THEN PlainNumber(original_cell)
             ELSE original_cell

-----------------------------------------------------------------------------
(* The table validator.                                                    *)

Page == <<"p", "a", "g", "e">>

\* re.match(r'^(19|20)\d{2}$', s)
YearMatch(s) ==
    /\ Len(s) = 4
    /\ SubSeq(s, 1, 2) \in { <<"1", "9">>, <<"2", "0">> }
    /\ isdigit(s[3]) /\ isdigit(s[4])

\* [0-9]{1,3}$ matched against the whole of s
OneToThreeDigits(s) == Len(s) \in 1..3 /\ \A i \in DOMAIN s : isdigit(s[i])

\* re.match(r'^(page\s*)?[0-9]{1,3}$', s)
PageNumberMatch(s) ==
    \/ OneToThreeDigits(s)
    \/ /\ Len(s) >= 4
       /\ SubSeq(s, 1, 4) = Page
       /\ OneToThreeDigits(SubSeq(s, SkipWhile(s, 5, Whitespace), Len(s)))

\* sum(1 for c in s if pred(c))
CountChars(s, S) == Cardinality({i \in DOMAIN s : s[i] \in S})

_is_meaningful_numerical_data(c) ==
    LET cell_clean == lower(strip(c))
    IN  IF YearMatch(cell_clean)
        THEN FALSE
        ELSE IF PageNumberMatch(cell_clean)
        THEN FALSE
        ELSE IF /\ Len(cell_clean) > 10
                /\ CountChars(cell_clean, Range(LowerLetters) \cup Range(UpperLetters))
                       > CountChars(cell_clean, Digits)
        THEN FALSE
        \* re.search(r'\d+[,.]?\d*', cell_clean): some digit occurs
        ELSE \E i \in DOMAIN cell_clean : isdigit(cell_clean[i])

\* the cells of the table in the order the two nested loops visit them
\* (an empty row is skipped by `if not row: continue`)
RECURSIVE CellsInOrder(_)
CellsInOrder(rows) ==
    IF rows = <<>> THEN <<>> ELSE Head(rows) \o CellsInOrder(Tail(rows))

\* lines 905-920: the counters after the loops, <<total_cells, numerical_cells>>
RECURSIVE CountCells(_, _, _)
CountCells(cells, total_cells, numerical_cells) ==
    IF cells = <<>>
    THEN <<total_cells, numerical_cells>>
    ELSE LET c == Head(cells)
         IN  IF c # <<>> /\ strip(c) # <<>>
             THEN CountCells(Tail(cells), total_cells + 1,
                             IF /\ _contains_number(strip(c))
                                /\ _is_meaningful_numerical_data(strip(c))
                             THEN numerical_cells + 1
                             ELSE numerical_cells)
             ELSE CountCells(Tail(cells), total_cells, numerical_cells)

\* the validator with the threshold test made strict (> for >=)
ValidateStrictThreshold(table, threshold) ==
    IF table = <<>>
    THEN FALSE
    ELSE LET counts == CountCells(CellsInOrder(table), 0, 0)
         IN  IF counts[1] = 0
             THEN FALSE
             ELSE counts[2] * threshold[2] > threshold[1] * counts[1]

\* The threshold is the fraction threshold[1] / threshold[2]; the float test
\* numerical_cells / total_cells >= threshold is the same test on integers
\* (counts this small are far from any rounding of the division).
_validate_table_has_numerical_data(table, threshold) ==
    IF table = <<>>
    THEN FALSE
    ELSE LET counts == CountCells(CellsInOrder(table), 0, 0)
             total_cells == counts[1]
             numerical_cells == counts[2]
         IN  IF total_cells = 0
             THEN FALSE
             ELSE numerical_cells * threshold[2] >= threshold[1] * total_cells

\* min_numerical_threshold: float = 0.3
DefaultThreshold == <<3, 10>>
-----------------------------------------------------------------------------
(* Anchored segmentation: the text is split in lines, the first line that  *)
(* holds the identifier is found and the lines from it on are parsed.      *)

\* s.split(sep) for a one-character separator, from position i on, `cur`
\* being the piece collected so far
RECURSIVE SplitFrom(_, _, _, _)
SplitFrom(s, i, seps, cur) ==
    IF i > Len(s)
    THEN <<cur>>
    ELSE IF i \in seps
         THEN <<cur>> \o SplitFrom(s, i + 1, seps, <<>>)
         ELSE SplitFrom(s, i + 1, seps, Append(cur, s[i]))

\* text.split('\n')
SplitLines(text) == SplitFrom(text, 1, {i \in DOMAIN text : text[i] = "\n"}, <<>>)

\* re.split(r'\s{2,}', s): the pieces between runs of two or more whitespace
RECURSIVE SplitWideGaps(_, _, _)
SplitWideGaps(s, i, cur) ==
    IF i > Len(s)
    THEN <<cur>>
    ELSE LET j == SkipWhile(s, i, Whitespace)
         IN  IF j - i >= 2
             THEN <<cur>> \o SplitWideGaps(s, j, <<>>)
             ELSE SplitWideGaps(s, i + 1, Append(cur, s[i]))

\* [col.strip() for col in columns if col.strip()]
RECURSIVE StrippedNonEmpty(_)
StrippedNonEmpty(columns) ==
    IF columns = <<>>
    THEN <<>>
    ELSE LET col == strip(Head(columns))
         IN  (IF col # <<>> THEN <<col>> ELSE <<>>)
                 \o StrippedNonEmpty(Tail(columns))

\* the row parser with the comma split taken at every comma
ParseRowAtEveryComma(line) ==
    LET by_spaces == StrippedNonEmpty(SplitWideGaps(line, 1, <<>>))
        by_tabs   == StrippedNonEmpty(
                         SplitFrom(line, 1, {i \in DOMAIN line : line[i] = "\t"}, <<>>))
        by_commas == StrippedNonEmpty(
                         SplitFrom(line, 1, {i \in DOMAIN line : line[i] = ","}, <<>>))
        by_single == StrippedNonEmpty(
                         SplitFrom(line, 1,
                                   {i \in DOMAIN line : line[i] \in Whitespace}, <<>>))
    IN  IF Contains(line, <<" ", " ">>) /\ Len(by_spaces) > 1
        THEN by_spaces
        ELSE IF "\t" \in Range(line) /\ Len(by_tabs) > 1
        THEN by_tabs
        ELSE IF "," \in Range(line) /\ Len(by_commas) > 1
        THEN by_commas
        ELSE IF Len(by_single) > 1
        THEN by_single
        ELSE IF line # <<>> THEN <<line>> ELSE <<>>

_parse_table_row(line) ==
    LET by_spaces == StrippedNonEmpty(SplitWideGaps(line, 1, <<>>))
        by_tabs   == StrippedNonEmpty(
                         SplitFrom(line, 1, {i \in DOMAIN line : line[i] = "\t"}, <<>>))
        \* re.split(r',(?![0-9])', line)
        by_commas == StrippedNonEmpty(
                         SplitFrom(line, 1,
                                   {i \in DOMAIN line :
                                       /\ line[i] = ","
                                       /\ (i = Len(line) \/ ~isdigit(line[i + 1]))},
                                   <<>>))
        \* line.split()
        by_single == StrippedNonEmpty(
                         SplitFrom(line, 1,
                                   {i \in DOMAIN line : line[i] \in Whitespace}, <<>>))
    IN  IF Contains(line, <<" ", " ">>) /\ Len(by_spaces) > 1
        THEN by_spaces
        ELSE IF "\t" \in Range(line) /\ Len(by_tabs) > 1
        THEN by_tabs
        ELSE IF "," \in Range(line) /\ Len(by_commas) > 1
        THEN by_commas
        ELSE IF Len(by_single) > 1
        THEN by_single
        ELSE IF line # <<>> THEN <<line>> ELSE <<>>

header_indicators ==
    { <<"p", "a", "g", "e">>, <<"t", "o", "t", "a", "l">>, <<"s", "u", "m", "m", "a", "r", "y">>, <<"r", "e", "p", "o", "r", "t">>, <<"s", "t", "a", "t", "e", "m", "e", "n", "t">>,
      <<"p", "e", "r", "i", "o", "d">>, <<"d", "a", "t", "e">>, <<"y", "e", "a", "r">>, <<"q", "u", "a", "r", "t", "e", "r">>, <<"m", "o", "n", "t", "h">> }

\* str.isupper: some cased character, and no lower-case one
isupper(s) ==
    /\ \E i \in DOMAIN s : s[i] \in Range(UpperLetters)
    /\ \A i \in DOMAIN s : s[i] \notin Range(LowerLetters)

_is_header_line(line) ==
    \/ \E indicator \in header_indicators : Contains(lower(line), indicator)
    \/ (Len(line) > 3 /\ isupper(line))
    \* alphanumeric_count / len(line) < 0.3
    \/ (Len(line) > 0
        /\ 10 * Cardinality({i \in DOMAIN line : isalnum(line[i])}) < 3 * Len(line))

end_indicators ==
    { <<"t", "o", "t", "a", "l">>, <<"s", "u", "m">>, <<"g", "r", "a", "n", "d", " ", "t", "o", "t", "a", "l">>, <<"s", "u", "b", "t", "o", "t", "a", "l">>,
      <<"n", "o", "t", "e", "s", ":">>, <<"f", "o", "o", "t", "n", "o", "t", "e", "s", ":">>, <<"s", "o", "u", "r", "c", "e", ":">>, <<"r", "e", "f", "e", "r", "e", "n", "c", "e", ":">> }

_is_table_end(line) ==
    \E indicator \in end_indicators : Contains(lower(line), indicator)

\* lines 558-575: the loop over the lines, `table_data` being the rows so far
RECURSIVE ParseLinesFrom(_, _, _)
ParseLinesFrom(lines, i, rows) ==
    IF i > Len(lines)
    THEN rows
    ELSE LET line == strip(lines[i])
         IN  IF line = <<>> \/ _is_header_line(line)
             THEN ParseLinesFrom(lines, i + 1, rows)
             ELSE LET row_data == _parse_table_row(line)
                      rows2 == IF row_data # <<>> THEN Append(rows, row_data) ELSE rows
                  IN  IF _is_table_end(line)
                      THEN rows2
                      ELSE ParseLinesFrom(lines, i + 1, rows2)

_parse_table_lines(lines) == ParseLinesFrom(lines, 1, <<>>)

\* the scan with the break left out: the last matching line wins
RECURSIVE ScanKeepsLastMatch(_, _, _)
ScanKeepsLastMatch(lines, i, identifier) ==
    IF i > Len(lines)
    THEN 0
    ELSE LET later == ScanKeepsLastMatch(lines, i + 1, identifier)
         IN  IF later # 0
             THEN later
             ELSE IF Contains(lower(lines[i]), lower(identifier))
                  THEN i
                  ELSE 0

\* lines 526-530: the scan for the identifier from line i on; the index of
\* the line where the scan breaks, 0 when it runs to the end
RECURSIVE ScanForIdentifier(_, _, _)
ScanForIdentifier(lines, i, identifier) ==
    IF i > Len(lines)
    THEN 0
    ELSE IF Contains(lower(lines[i]), lower(identifier))
         THEN i
         ELSE ScanForIdentifier(lines, i + 1, identifier)

\* an Optional[List[List[str]]]
None == [none |-> TRUE, rows |-> <<>>]

Some(rows) == [none |-> FALSE, rows |-> rows]

_find_table_by_identifier(text, identifier) ==
    LET lines == SplitLines(text)
        table_start_idx == ScanForIdentifier(lines, 1, identifier)
    IN  IF table_start_idx = 0
        THEN None
        ELSE Some(_parse_table_lines(SubSeq(lines, table_start_idx, Len(lines))))

\* [[_normalize_number_format(cell) for cell in row] for row in table_data]
_process_number_formats(table) ==
    [r \in DOMAIN table |->
        [k \in DOMAIN table[r] |-> _normalize_number_format(table[r][k])]]

\* What a call gives its caller: a returned value, or the exception raised.
Returned(value) == [raised |-> "", value |-> value]

Raised(exception) == [raised |-> exception, value |-> <<>>]

\* lines 161-195; `pdf` is what _open_pdf does with the source: it gives
\* a document ("document"), gives None ("none") or raises FileNotFoundError
extract_table_data(pdf, text, identifier) ==
    IF pdf = "missing"
    THEN Raised("FileNotFoundError")
    ELSE IF pdf = "none"
    THEN Raised("ValueError: Could not open PDF")
    ELSE LET table == _find_table_by_identifier(text, identifier)
         IN  IF table.none \/ table.rows = <<>>
             THEN Raised("ValueError: Table not found in PDF")
             ELSE LET processed_data == _process_number_formats(table.rows)
                  IN  IF ~_validate_table_has_numerical_data(processed_data,
                                                             DefaultThreshold)
                      THEN Raised("ValueError: insufficient numerical data")
                      ELSE Returned(processed_data)
-----------------------------------------------------------------------------
(* Bulk extraction (the pdfplumber path): a source is a sequence of pages, *)
(* a page the sequence of raw tables page.extract_tables() gives, a raw    *)
(* table a sequence of rows of cells; a cell is text or None.              *)

\* the cell pdfplumber gives for an empty table cell (Python's None)
NoneCell == <<"None">>

\* str(cell) if cell else ''
CellText(c) == IF c = NoneCell \/ c = <<>> THEN <<>> ELSE c

\* f'Table {table_idx + 1} on Page {page_num + 1}'
Title(table_index, page_number) == [table |-> table_index, page |-> page_number]

\* lines 91-119: the table_info built for raw table number table_idx (from 0)
\* of page number page_num (from 0)
TableInfo(table, table_idx, page_num) ==
    LET processed_table ==
            [r \in DOMAIN table |->
                [k \in DOMAIN table[r] |-> CellText(table[r][k])]]
        headers == processed_table[1]
    IN  [ page_number      |-> page_num + 1,
          table_index      |-> table_idx + 1,
          data             |-> processed_table,
          headers          |-> headers,
          row_count        |-> Len(processed_table),
          column_count     |-> Len(headers),
          has_numeric_data |->
              \E r \in 2..Len(processed_table) :
                  \E k \in DOMAIN processed_table[r] :
                      /\ processed_table[r][k] # <<>>
                      /\ _contains_number(processed_table[r][k]),
          title            |-> Title(table_idx + 1, page_num + 1) ]

\* lines 88-122: the tables of one page, from raw table number i on; an
\* empty raw table is skipped and still counts in the numbering
RECURSIVE PageTablesFrom(_, _, _)
PageTablesFrom(tables, i, page_num) ==
    IF i > Len(tables)
    THEN <<>>
    ELSE (IF tables[i] # <<>>
          THEN <<TableInfo(tables[i], i - 1, page_num)>>
          ELSE <<>>)
             \o PageTablesFrom(tables, i + 1, page_num)

\* lines 84-122: the tables of all pages from page number i on
RECURSIVE AllTablesFrom(_, _)
AllTablesFrom(pages, i) ==
    IF i > Len(pages)
    THEN <<>>
    ELSE PageTablesFrom(pages[i], 1, i - 1) \o AllTablesFrom(pages, i + 1)

\* a source locator that names no file, and one that names a document
MissingFile == [exists |-> FALSE, pages |-> <<>>]

Document(pages) == [exists |-> TRUE, pages |-> pages]

extract_all_tables_from_pdf(source_uri) ==
    IF ~source_uri.exists
    THEN Raised("FileNotFoundError")
    ELSE Returned(AllTablesFrom(source_uri.pages, 1))

-----------------------------------------------------------------------------
(* The reply of the reasoning service, as the matcher reads it: a text is  *)
(* a sequence of tokens, each a brace, a stretch of prose, or one          *)
(* "key": value member of a JSON object.  A JSON value is a record of its  *)
(* Python type and a number: the integer, the float in hundredths, or the  *)
(* number of a string.                                                     *)

JInt(i) == [type |-> "int", val |-> i]

JFloat(hundredths) == [type |-> "float", val |-> hundredths]

\* json.loads gives True / False, which Python treats as the ints 1 / 0
JBool(b) == [type |-> "bool", val |-> IF b THEN 1 ELSE 0]

JStr(n) == [type |-> "str", val |-> n]

JNull == [type |-> "null", val |-> 0]

JList == [type |-> "list", val |-> 0]

LBrace == [tok |-> "{", key |-> "", val |-> JNull]

RBrace == [tok |-> "}", key |-> "", val |-> JNull]

Prose == [tok |-> "prose", key |-> "", val |-> JNull]

Member(key, val) == [tok |-> "member", key |-> key, val |-> val]

\* what bedrock_client.invoke_claude does: it returns a text, returns None,
\* or raises
Reply(text) == [kind |-> "text", text |-> text]

NoReply == [kind |-> "none", text |-> <<>>]

ServiceRaises == [kind |-> "raises", text |-> <<>>]

\* response.find('{') + 1: the position of the first '{', 0 when none
FindLBrace(text) ==
    IF \E i \in DOMAIN text : text[i] = LBrace
    THEN CHOOSE i \in DOMAIN text :
            text[i] = LBrace /\ \A k \in 1..(i - 1) : text[k] # LBrace
    ELSE 0

\* response.rfind('}') + 1: the position of the last '}', 0 when none
RFindRBrace(text) ==
    IF \E i \in DOMAIN text : text[i] = RBrace
    THEN CHOOSE i \in DOMAIN text :
            text[i] = RBrace /\ \A k \in (i + 1)..Len(text) : text[k] # RBrace
    ELSE 0

\* json.loads(json_str) succeeds: the span is one object, '{' members '}'
JsonParses(json_str) ==
    /\ Len(json_str) >= 2
    /\ json_str[1] = LBrace
    /\ json_str[Len(json_str)] = RBrace
    /\ \A i \in 2..(Len(json_str) - 1) : json_str[i].tok = "member"

HasKey(json_str, key) == \E i \in DOMAIN json_str : json_str[i].key = key

\* analysis_result.get(key, default): the last member with the key wins
Get(json_str, key, default) ==
    IF HasKey(json_str, key)
    THEN json_str[CHOOSE i \in DOMAIN json_str :
                     /\ json_str[i].key = key
                     /\ \A k \in (i + 1)..Len(json_str) : json_str[k].key # key].val
    ELSE default

\* table_index >= 0 and table_index < len(all_tables) raises TypeError
ComparisonRaises(table_index) == table_index.type \notin {"int", "bool", "float"}

\* table_index >= 0 and table_index < len(all_tables), the float in hundredths
InRange(table_index, n) ==
    IF table_index.type = "float"
    THEN table_index.val >= 0 /\ table_index.val < 100 * n
    ELSE table_index.val >= 0 /\ table_index.val < n

\* all_tables[table_index] raises TypeError
IndexingRaises(table_index) == table_index.type \notin {"int", "bool"}

\* an Optional[Dict]: the table the matcher selected, or None
NoMatch == [none |-> TRUE]

Match(table) == [none |-> FALSE, table |-> table]

\* lines 422-424: the copy of the selected table with the match fields
MatchingTable(table, analysis_result) ==
    [ page_number      |-> table.page_number,
      table_index      |-> table.table_index,
      data             |-> table.data,
      headers          |-> table.headers,
      row_count        |-> table.row_count,
      column_count     |-> table.column_count,
      has_numeric_data |-> table.has_numeric_data,
      title            |-> table.title,
      match_confidence |-> Get(analysis_result, "match_confidence", JFloat(80)),
      match_reasoning  |-> Get(analysis_result, "match_reasoning", JStr(0)) ]

\* the matcher with the table chosen one place too far
SelectsNextTable(all_tables, response) ==
    IF response.kind # "text" \/ response.text = <<>>
    THEN Returned(NoMatch)
    ELSE LET json_start == FindLBrace(response.text)
             json_end   == RFindRBrace(response.text)
             json_str   == SubSeq(response.text, json_start, json_end)
             table_index == Get(json_str, "matching_table_index", JInt(-1))
         IN  IF json_start = 0 \/ json_end = 0 \/ ~JsonParses(json_str)
                \/ ComparisonRaises(table_index)
                \/ ~InRange(table_index, Len(all_tables))
                \/ IndexingRaises(table_index)
             THEN Returned(NoMatch)
             ELSE Returned(Match(MatchingTable(
                      all_tables[((table_index.val + 1) % Len(all_tables)) + 1],
                      json_str)))

\* lines 405-438: what _find_matching_table_with_llm does with the response
\* of the service (the table numbers of Python start at 0)
_find_matching_table_with_llm(all_tables, response) ==
    IF response.kind = "raises"
    THEN Returned(NoMatch)                      \* except Exception: return None
    ELSE IF response.kind = "none" \/ response.text = <<>>
    THEN Returned(NoMatch)                      \* if not response: return None
    ELSE LET json_start == FindLBrace(response.text)
             json_end   == RFindRBrace(response.text)
             json_str   == SubSeq(response.text, json_start, json_end)
             table_index == Get(json_str, "matching_table_index", JInt(-1))
         IN  IF json_start = 0 \/ json_end = 0
             THEN Returned(NoMatch)             \* falls off the end: None
             ELSE IF ~JsonParses(json_str)
             THEN Returned(NoMatch)             \* except json.JSONDecodeError
             ELSE IF ComparisonRaises(table_index)
             THEN Returned(NoMatch)             \* TypeError, except Exception
             ELSE IF ~InRange(table_index, Len(all_tables))
             THEN Returned(NoMatch)             \* "LLM found no matching table"
             ELSE IF IndexingRaises(table_index)
             THEN Returned(NoMatch)             \* TypeError, except Exception
             ELSE Returned(Match(MatchingTable(all_tables[table_index.val + 1],
                                               json_str)))

\* the candidate list without the .copy() of line 422: the match fields are
\* written into the caller's table
WithoutCopy(all_tables, response) ==
    LET matched == _find_matching_table_with_llm(all_tables, response).value
    IN  IF matched.none
        THEN all_tables
        ELSE [i \in DOMAIN all_tables |->
                IF all_tables[i].title = matched.table.title
                THEN matched.table
                ELSE all_tables[i]]

\* line 422: the matcher works on a copy, the caller's list stays as it was
AllTablesAfterMatch(all_tables, response) == all_tables

\* lines 361-376: the summary of the tables sent to the service
TablesSummary(all_tables) ==
    [i \in DOMAIN all_tables |->
        [ index            |-> i - 1,
          title            |-> all_tables[i].title,
          page_number      |-> all_tables[i].page_number,
          row_count        |-> all_tables[i].row_count,
          column_count     |-> all_tables[i].column_count,
          headers          |-> all_tables[i].headers,
          sample_data      |-> IF Len(all_tables[i].data) > 3
                               THEN SubSeq(all_tables[i].data, 1, 3)
                               ELSE all_tables[i].data,
          has_numeric_data |-> all_tables[i].has_numeric_data ]]

\* lines 305-309
NoTablesResult ==
    [ error |-> <<"No tables found in the PDF document">>, success |-> FALSE ]

\* lines 340-345
FailedResult(exception) ==
    [ error |-> <<"Failed to extract tables", exception>>, success |-> FALSE ]

\* lines 319-338: the result built from what the matcher gave
MatchResult(all_tables, request, matched) ==
    IF matched.raised # ""
    THEN FailedResult(matched.raised)
    ELSE IF matched.value.none
    THEN [ error            |-> <<"No table found matching the request", request>>,
           success          |-> FALSE,
           available_tables |-> Len(all_tables) ]
    ELSE LET matching_table == matched.value.table
         IN  [ success              |-> TRUE,
               table_data           |-> matching_table.data,
               headers              |-> matching_table.headers,
               title                |-> matching_table.title,
               page_number          |-> matching_table.page_number,
               row_count            |-> matching_table.row_count,
               column_count         |-> matching_table.column_count,
               match_confidence     |-> matching_table.match_confidence,
               match_reasoning      |-> matching_table.match_reasoning,
               total_tables_scanned |-> Len(all_tables) ]

\* lines 297-345, run by itself: `bedrock` is "given" (a client is passed),
\* "created" (get_bedrock_client gives one) or "unavailable" (it raises)
extract_tables_with_llm(source_uri, request, bedrock, response) ==
    LET extracted == extract_all_tables_from_pdf(source_uri)
    IN  IF extracted.raised # ""
        THEN FailedResult(extracted.raised)
        ELSE IF extracted.value = <<>>
        THEN NoTablesResult
        ELSE IF bedrock = "unavailable"
        THEN FailedResult("NoCredentialsError")
        ELSE MatchResult(extracted.value, request,
                         _find_matching_table_with_llm(extracted.value, response))
-----------------------------------------------------------------------------
(* The row classifier: _is_potential_header.                               *)

\* ' '.join(cells) from cell number i on
RECURSIVE JoinFrom(_, _)
JoinFrom(cells, i) ==
    IF i > Len(cells)
    THEN <<>>
    ELSE IF i = Len(cells)
    THEN cells[i]
    ELSE cells[i] \o <<" ">> \o JoinFrom(cells, i + 1)

\* re.search of one alternative of a pattern: the word occurs in s, with a
\* \b before it and a \b after it where the pattern has one
SearchWord(s, word, b_before, b_after) ==
    \E i \in 1..(Len(s) - Len(word) + 1) :
        /\ SubSeq(s, i, i + Len(word) - 1) = word
        /\ b_before => BoundaryBefore(s, i)
        /\ b_after => BoundaryAfter(s, i + Len(word) - 1)

\* lines 861-874 but for line 865: the alternatives of the patterns that are
\* whole groups between two \b
header_patterns ==
    { <<"y", "e", "a", "r">>, <<"q", "u", "a", "r", "t", "e", "r">>, <<"m", "o", "n", "t", "h">>,
      <<"2", "0", "2", "4">>, <<"2", "0", "2", "3">>, <<"2", "0", "2", "2">>, <<"2", "0", "2", "1">>, <<"2", "0", "2", "0">>,
      <<"a", "m", "o", "u", "n", "t">>, <<"v", "a", "l", "u", "e">>, <<"t", "o", "t", "a", "l">>, <<"b", "a", "l", "a", "n", "c", "e">>,
      <<"t", "h", "o", "u", "s", "a", "n", "d">>, <<"m", "i", "l", "l", "i", "o", "n">>, <<"b", "i", "l", "l", "i", "o", "n">>,
      <<"a", "s", "s", "e", "t", "s">>, <<"l", "i", "a", "b", "i", "l", "i", "t", "i", "e", "s">>, <<"e", "q", "u", "i", "t", "y">>,
      <<"l", "e", "v", "e", "l", " ", "1">>, <<"l", "e", "v", "e", "l", " ", "2">>, <<"l", "e", "v", "e", "l", " ", "3">>,
      <<"d", "e", "s", "c", "r", "i", "p", "t", "i", "o", "n">>, <<"t", "y", "p", "e">>, <<"c", "a", "t", "e", "g", "o", "r", "y">>,
      <<"f", "a", "i", "r", " ", "v", "a", "l", "u", "e">>, <<"b", "o", "o", "k", " ", "v", "a", "l", "u", "e">>, <<"m", "a", "r", "k", "e", "t", " ", "v", "a", "l", "u", "e">> }

\* line 865, r'\bmarch|june|september|december\b': the \b bind to the first
\* and the last alternative only
MonthPattern(s) ==
    \/ SearchWord(s, <<"m", "a", "r", "c", "h">>, TRUE, FALSE)
    \/ SearchWord(s, <<"j", "u", "n", "e">>, FALSE, FALSE)
    \/ SearchWord(s, <<"s", "e", "p", "t", "e", "m", "b", "e", "r">>, FALSE, FALSE)
    \/ SearchWord(s, <<"d", "e", "c", "e", "m", "b", "e", "r">>, FALSE, TRUE)

\* lines 844-887; text_cells > len(row) * 0.6 is compared in tenths
_is_potential_header(cells) ==
    IF cells = <<>>
    THEN FALSE
    ELSE LET row_text == lower(JoinFrom(cells, 1))
             text_cells == Cardinality({k \in DOMAIN cells : ~_contains_number(cells[k])})
         IN  \/ \E word \in header_patterns : SearchWord(row_text, word, TRUE, TRUE)
             \/ MonthPattern(row_text)
             \/ 10 * text_cells > 6 * Len(cells)

\* PDFExtractor has no attribute _distinguish_dates_from_data: the call the
\* tests make raises AttributeError whatever the row
_distinguish_dates_from_data(cells) == Raised("AttributeError")

-----------------------------------------------------------------------------
(* Bulk extraction from text (the fallback path): every run of lines that  *)
(* look like table data is a candidate table.                              *)

\* s.count(sub) from position i on: occurrences that do not overlap
RECURSIVE CountFrom(_, _, _)
CountFrom(s, i, sub) ==
    IF i + Len(sub) - 1 > Len(s)
    THEN 0
    ELSE IF SubSeq(s, i, i + Len(sub) - 1) = sub
         THEN 1 + CountFrom(s, i + Len(sub), sub)
         ELSE CountFrom(s, i + 1, sub)

\* lines 973-996; len(re.findall(r'\d+', line)) is the number of places
\* where a run of digits starts
_line_looks_like_table_data(text) ==
    LET line == strip(text)
        separators ==
            CountFrom(line, 1, <<" ", " ">>) + CountFrom(line, 1, <<"\t">>)
                + CountFrom(line, 1, <<"|">>)
        number_count ==
            Cardinality({i \in DOMAIN line :
                            isdigit(line[i]) /\ (i = 1 \/ ~isdigit(line[i - 1]))})
    IN  /\ line # <<>>
        /\ separators >= 2 \/ (separators >= 1 /\ number_count >= 2)

\* the table_info of a run from which the rows that are not as long as the
\* first row were dropped
EvenRowsOnly(current_table, table_count) ==
    LET even == SelectSeq(current_table,
                          LAMBDA rw : Len(rw) = Len(current_table[1]))
    IN  [ page_number      |-> 0,
          table_index      |-> table_count,
          data             |-> even,
          headers          |-> even[1],
          row_count        |-> Len(even),
          column_count     |-> Len(even[1]),
          has_numeric_data |->
              \E r \in 2..Len(even) :
                  \E k \in DOMAIN even[r] : _contains_number(even[r][k]),
          title            |-> Title(table_count, 0) ]

\* lines 226-246 and 251-271: the table_info of a finished run of rows
TextTableInfo(current_table, table_count) ==
    [ page_number      |-> 0,
      table_index      |-> table_count,
      data             |-> current_table,
      headers          |-> current_table[1],
      row_count        |-> Len(current_table),
      column_count     |-> Len(current_table[1]),
      has_numeric_data |->
          \E r \in 2..Len(current_table) :
              \E k \in DOMAIN current_table[r] :
                  /\ current_table[r][k] # <<>>
                  /\ _contains_number(current_table[r][k]),
      title            |-> Title(table_count, 0) ]

\* lines 213-273: the loop from line number i on, and what follows it
RECURSIVE TablesFromLines(_, _, _, _)
TablesFromLines(lines, i, current_table, all_tables) ==
    LET saved == IF Len(current_table) > 1
                 THEN Append(all_tables,
                             TextTableInfo(current_table, Len(all_tables) + 1))
                 ELSE all_tables
    IN  IF i > Len(lines)
        THEN saved
        ELSE LET line == strip(lines[i])
             IN  IF _line_looks_like_table_data(line)
                 THEN LET row_data == _parse_table_row(line)
                      IN  TablesFromLines(lines, i + 1,
                              IF row_data # <<>>
                              THEN Append(current_table, row_data)
                              ELSE current_table,
                              all_tables)
                 ELSE IF current_table # <<>>
                      THEN TablesFromLines(lines, i + 1, <<>>, saved)
                      ELSE TablesFromLines(lines, i + 1, <<>>, all_tables)

_extract_all_tables_from_text(text) ==
    TablesFromLines(SplitLines(text), 1, <<>>, <<>>)
-----------------------------------------------------------------------------
(* The Excel file registry: ExcelFilePersistenceManager.  A file on disk   *)
(* is a number: 0 for a file that is no workbook, and otherwise the        *)
(* version of its content, which is also its hash.  A record keeps the     *)
(* fields file_path, file_hash, sync_status and is_open; the time stamps,  *)
(* the size and the sheet count are left out.  Writes of the metadata file *)
(* succeed.                                                                *)

\* a path on disk: its stem and its suffix
Path(stem, suffix) == [stem |-> stem, suffix |-> suffix]

\* the dictionary with no key
EmptyDict == [k \in {} |-> 0]

\* d[key] = value
Put(d, key, value) ==
    [k \in DOMAIN d \cup {key} |-> IF k = key THEN value ELSE d[k]]

\* a file id made of the time stamp alone
IdOfTimestamp(file_path, timestamp) == <<Path(0, ".xlsx"), timestamp>>

\* lines 289-293: the first 12 hex digits of the MD5 of the path and the
\* time stamp, taken to differ when the path or the time stamp do
_generate_file_id(file_path, timestamp) == <<file_path, timestamp>>

\* lines 303-318: the registry a manager loads from the metadata file
_load_metadata(stored) ==
    IF ~stored.exists
    THEN EmptyDict
    ELSE [file_id \in DOMAIN stored.data |->
             [ file_path   |-> stored.data[file_id].file_path,
               file_hash   |-> stored.data[file_id].file_hash,
               sync_status |-> stored.data[file_id].sync_status,
               is_open     |-> stored.data[file_id].is_open ]]

\* lines 320-340: the metadata file written from the registry
_sync_metadata_immediate(records) ==
    [ exists |-> TRUE,
      data   |-> [file_id \in DOMAIN records |->
                     [ file_path   |-> records[file_id].file_path,
                       file_hash   |-> records[file_id].file_hash,
                       sync_status |-> records[file_id].sync_status,
                       is_open     |-> records[file_id].is_open ]] ]

\* lines 351-365: the registry after a monitor pass over the files on disk
MonitorPass(records, files) ==
    [file_id \in DOMAIN records |->
        LET record == records[file_id]
        IN  IF record.file_path \in DOMAIN files
            THEN IF files[record.file_path] # record.file_hash
                 THEN [record EXCEPT !.sync_status = "needs_sync"]
                 ELSE record
            ELSE [record EXCEPT !.sync_status = "missing"]]
-----------------------------------------------------------------------------
(* The web extractor: sanitising of extracted data, the retry decorator,   *)
(* the set-up of the browser and its release.                              *)

\* where a match of one of the patterns of sanitize_data that starts at
\* position i ends, 0 when none starts there:
\*   <script[^>]*>.*?</script>   javascript:   on\w+\s*=
\* all of them with re.IGNORECASE, the first with re.DOTALL
MatchEnd(pattern, s, i) ==
    IF pattern = "script"
    THEN IF i + 6 <= Len(s) /\ lower(SubSeq(s, i, i + 6)) = <<"<", "s", "c", "r", "i", "p", "t">>
         THEN LET closes == {g \in (i + 7)..Len(s) : s[g] = ">"}
                  g == CHOOSE a \in closes : \A b \in closes : a <= b
                  ends == IF closes = {} THEN {}
                          ELSE {c \in (g + 1)..(Len(s) - 8) :
                                   lower(SubSeq(s, c, c + 8)) = <<"<", "/", "s", "c", "r", "i", "p", "t", ">">>}
              IN  IF ends = {} THEN 0
                  ELSE (CHOOSE a \in ends : \A b \in ends : a <= b) + 8
         ELSE 0
    ELSE IF pattern = "javascript"
    THEN IF i + 10 <= Len(s) /\ lower(SubSeq(s, i, i + 10)) = <<"j", "a", "v", "a", "s", "c", "r", "i", "p", "t", ":">>
         THEN i + 10
         ELSE 0
    ELSE IF i + 1 <= Len(s) /\ lower(SubSeq(s, i, i + 1)) = <<"o", "n">>
         THEN LET j == SkipWhile(s, i + 2, {c \in Range(s) : IsWordChar(c)})
                  k == SkipWhile(s, j, Whitespace)
              IN  IF j > i + 2 /\ k <= Len(s) /\ s[k] = "=" THEN k ELSE 0
         ELSE 0

\* re.sub(pattern, '', s) from position i on
RECURSIVE RemoveMatches(_, _, _)
RemoveMatches(pattern, s, i) ==
    IF i > Len(s)
    THEN <<>>
    ELSE IF MatchEnd(pattern, s, i) > 0
         THEN RemoveMatches(pattern, s, MatchEnd(pattern, s, i) + 1)
         ELSE <<s[i]>> \o RemoveMatches(pattern, s, i + 1)

\* data.startswith(('=', '+', '-', '@'))
FormulaStarts == {"=", "+", "-", "@"}

\* web_extractor.py lines 89-107 (lambda_web_extractor.py lines 66-86 are the
\* same statements); a value is a text, a list of values, a dict (a list of
\* pairs of a key and a value) or something else
RECURSIVE sanitize_data(_)
sanitize_data(data) ==
    IF data.type = "str"
    THEN LET no_script   == RemoveMatches("script", data.val, 1)
             no_scheme   == RemoveMatches("javascript", no_script, 1)
             no_handlers == RemoveMatches("handler", no_scheme, 1)
             quoted == IF no_handlers # <<>> /\ no_handlers[1] \in FormulaStarts
                       THEN <<"'">> \o no_handlers
                       ELSE no_handlers
         IN  [type |-> "str", val |-> strip(quoted)]
    ELSE IF data.type = "list"
    THEN [type |-> "list",
          val  |-> [i \in DOMAIN data.val |-> sanitize_data(data.val[i])]]
    ELSE IF data.type = "dict"
    THEN [type |-> "dict",
          val  |-> [i \in DOMAIN data.val |->
                       <<data.val[i][1], sanitize_data(data.val[i][2])>>]]
    ELSE data

\* the exceptions the wrapper of retry_with_backoff catches (line 76)
RetriedExceptions ==
    {"TimeoutException", "WebDriverException", "StaleElementReferenceException"}

\* self.driver is None
NoDriver == 0

\* lines 238-320, one run of the body of _setup_driver; `w` holds self.driver,
\* _active_drivers and the number of browsers started so far, `start` says
\* what the browser does: it starts ("ok"), webdriver.Chrome raises
\* WebDriverException ("no_browser"), or the browser starts and
\* set_page_load_timeout raises WebDriverException ("no_timeout")
SetupBody(w, start) ==
    IF start = "ok"
    THEN [w EXCEPT !.driver = w.made + 1,
                   !.active = w.active \cup {w.made + 1},
                   !.made = w.made + 1,
                   !.tries = w.tries + 1,
                   !.raised = ""]
    ELSE \* lines 312-320: the handler quits the driver it holds, forgets it
         \* and raises WebExtractionError
         [w EXCEPT !.driver = NoDriver,
                   !.made = IF start = "no_timeout" THEN w.made + 1 ELSE w.made,
                   !.tries = w.tries + 1,
                   !.raised = "WebExtractionError"]

\* lines 67-86: the wrapper of retry_with_backoff around _setup_driver, from
\* attempt number `attempt` (0-based) on; plan[k] is what the browser does
\* at the k-th run of the body
RECURSIVE retry_with_backoff(_, _, _, _)
retry_with_backoff(max_retries, w, plan, attempt) ==
    LET after == SetupBody(w, plan[attempt + 1])
    IN  IF after.raised = ""
        THEN after
        ELSE IF after.raised \in RetriedExceptions /\ attempt < max_retries - 1
        THEN retry_with_backoff(max_retries, after, plan, attempt + 1)
        ELSE after

\* line 238: @retry_with_backoff(max_retries=2, base_delay=1.0)
_setup_driver(w, plan) == retry_with_backoff(2, w, plan, 0)

\* a clean-up that keeps the driver when quit() fails
CleanupUnlessQuitFails(w, quit_raises) ==
    IF w.driver # NoDriver /\ ~quit_raises
    THEN [w EXCEPT !.driver = NoDriver, !.active = w.active \ {w.driver}]
    ELSE w

\* lines 499-512: the driver leaves the registry before quit() is called,
\* an error of quit() is logged, and self.driver is cleared in the finally
_cleanup(w, quit_raises) ==
    IF w.driver # NoDriver
    THEN [w EXCEPT !.driver = NoDriver, !.active = w.active \ {w.driver}]
    ELSE w

\* lines 155-186: what extract_table makes of what strategy.extract does: it
\* returns a dict with data (and headers), returns None, returns an error
\* result or a dict without data, or raises
TableOf(strategy_result) ==
    IF strategy_result.outcome = "table"
    THEN IF strategy_result.headers.val # <<>>
         THEN Returned(<<sanitize_data(strategy_result.headers)>>
                           \o sanitize_data(strategy_result.data).val)
         ELSE Returned(sanitize_data(strategy_result.data).val)
    ELSE IF strategy_result.outcome = "TimeoutException"
    THEN Raised("TimeoutError")
    ELSE Raised("WebExtractionError")
-----------------------------------------------------------------------------
(* Cells fed to the normaliser: every string over CellAlphabet of at most  *)
(* MaxCellLen characters, and the longer cells of the source's tests.      *)

MaxCellLen == 4

CellAlphabet == {"5", ",", ".", "$", "%", "(", ")", "-", " ", "m", "x"}

StringsUpTo(alphabet, n) == UNION {[1..k -> alphabet] : k \in 0..n}

SeedCells ==
    { <<"$", "1", ",", "2", "3", "4", ".", "5", "6">>,
      <<"€", "2", "5", ",", "0", "0", "0">>,
      <<"(", "5", "0", "0", ".", "0", "0", ")">>,
      <<"(", "$", "1", ",", "0", "0", "0", ")">>,
      <<"1", ",", "2", "3", "4", ".", "5", "6", "%">>,
      <<"(", "2", "5", ".", "5", "%", ")">>,
      <<"$", "1", "2", "3", "M">>,
      <<"1", "2", "3", " ", "m", "i", "l", "l", "i", "o", "n">>,
      <<"T", "o", "t", "a", "l", " ", "a", "s", "s", "e", "t", "s">>,
      <<"N", "/", "A">>,
      <<"(", "i", "n", "f", ")">>,
      <<"-", "-">> }

Cells == StringsUpTo(CellAlphabet, MaxCellLen) \cup SeedCells

\* the normaliser is not part of the run
NormIdle ==
    /\ normPc = "idle"
    /\ cell = <<>>
    /\ normalized = <<>>
    /\ renormalized = <<>>

\* _process_number_formats applies the normaliser to the cell
NormalizeCell ==
    /\ normPc = "input"
    /\ normalized' = _normalize_number_format(cell)
    /\ normPc' = "normalized"
    /\ UNCHANGED <<cell, renormalized, validVars, anchorVars, matchVars, headerVars, bulkVars, fileVars, parseVars, webVars>>

\* the normalised cell is normalised a second time
NormalizeAgain ==
    /\ normPc = "normalized"
    /\ renormalized' = _normalize_number_format(normalized)
    /\ normPc' = "renormalized"
    /\ UNCHANGED <<cell, normalized, validVars, anchorVars, matchVars, headerVars, bulkVars, fileVars, parseVars, webVars>>

NormNext == NormalizeCell \/ NormalizeAgain

-----------------------------------------------------------------------------
(* Tables fed to the validator, and cells fed to its cell test.            *)

MaxTableRows == 2
MaxTableCells == 3

TableCells ==
    { <<>>,
      <<" ">>,
      <<"N", "o", "t", "e", "s">>,
      <<"2", "0", "2", "4">>,
      <<"$", "5">> }

\* every table of at most r rows holding at most n cells of TableCells
RECURSIVE TablesOf(_, _)
TablesOf(n, r) ==
    IF r = 0
    THEN { <<>> }
    ELSE { <<>> } \cup
         UNION { { <<row>> \o rest : row \in [1..k -> TableCells],
                                     rest \in TablesOf(n - k, r - 1) }
                 : k \in 0..n }

Tables == TablesOf(MaxTableCells, MaxTableRows)

Thresholds == { DefaultThreshold, <<1, 2>>, <<0, 1>> }

ProbeCells ==
    TableCells \cup StringsUpTo({"1", "9", "2", "0", "a"}, 4) \cup
    { <<"1", "2">>,
      <<"P", "a", "g", "e", " ", "1", "2">>,
      <<"p", "a", "g", "e", "1", "2", "3">>,
      <<"p", "a", "g", "e", " ", " ", "7">>,
      <<"p", "a", "g", "e", " ", "1", "2", "3", "4">>,
      <<"p", "a", "g", "e", "s", " ", "1", "2">>,
      <<" ", "1", "2", " ">>,
      <<"1", "2", "3", "4", "5">>,
      <<"1", ",", "2", "3", "4", ".", "5", "6">>,
      <<"S", "e", "e", " ", "p", "a", "g", "e", " ", "5">>,
      <<"S", "e", "e", " ", "p", "a", "g", "e", " ", "1", "5">>,
      <<"R", "e", "f", "e", "r", " ", "t", "o", " ", "n", "o", "t", "e", " ", "3">>,
      <<"1", "2", "3", "4", "5", "6", "7", "8", "9", "0", "a">>,
      <<"a", "b", "c", "1", "2", "3", "-", "-", "-", "-", "-">>,
      <<"D", "e", "s", "c", "r", "i", "p", "t", "i", "o", "n">> }

\* the validator is not part of the run
ValidIdle ==
    /\ validPc = "idle"
    /\ table_data = <<>>
    /\ min_numerical_threshold = DefaultThreshold
    /\ probe = <<>>
    /\ valid = FALSE
    /\ meaningful = FALSE

\* extract_table_data line 184 calls the validator on a table
ValidateTable ==
    /\ validPc = "table"
    /\ valid' = _validate_table_has_numerical_data(table_data, min_numerical_threshold)
    /\ validPc' = "validated"
    /\ UNCHANGED <<table_data, min_numerical_threshold, probe, meaningful, normVars, anchorVars, matchVars, headerVars, bulkVars, fileVars, parseVars, webVars>>

\* the validator's cell test on one stripped cell (lines 917-919)
ClassifyCell ==
    /\ validPc = "cell"
    /\ meaningful' = (/\ _contains_number(strip(probe))
                      /\ _is_meaningful_numerical_data(strip(probe)))
    /\ validPc' = "classified"
    /\ UNCHANGED <<table_data, min_numerical_threshold, probe, valid, normVars, anchorVars, matchVars, headerVars, bulkVars, fileVars, parseVars, webVars>>

ValidNext == ValidateTable \/ ClassifyCell
-----------------------------------------------------------------------------
(* Texts fed to anchored extraction: at most MaxLines lines of LinePool,   *)
(* joined by newlines.                                                     *)

MaxLines == 3

LinePool ==
    { <<"R", "e", "v", "e", "n", "u", "e", " ", "T", "a", "b", "l", "e">>,
      <<" ", " ", "r", "e", "v", "e", "n", "u", "e", " ", "5", " ", " ", "1", "0">>,
      <<"P", "r", "o", "d", "u", "c", "t", " ", "A", " ", " ", " ", "$", "1", "0", "0", "0">>,
      <<"B", " ", " ", "$", "2", ",", "0", "0", "0", " ", " ", "(", "7", ")">>,
      <<"f", "o", "o">>,
      <<>> }

Identifiers == { <<"R", "e", "v", "e", "n", "u", "e">>, <<"R", "E", "V", "E", "N", "U", "E", " ", "5">>, <<"p", "r", "o", "d", "u", "c", "t">>, <<"z", "z", "z">> }

\* '\n'.join(lines)
RECURSIVE JoinLines(_)
JoinLines(lines) ==
    IF lines = <<>>
    THEN <<>>
    ELSE IF Len(lines) = 1
         THEN lines[1]
         ELSE lines[1] \o <<"\n">> \o JoinLines(Tail(lines))

Texts == {JoinLines(lines) : lines \in StringsUpTo(LinePool, MaxLines)}

\* anchored extraction is not part of the run
AnchorIdle ==
    /\ anchorPc = "idle"
    /\ opened = "document"
    /\ text_content = <<>>
    /\ table_identifier = <<>>
    /\ found = None
    /\ outcome = Returned(<<>>)

\* the segmenter alone: _find_table_by_identifier on the text
FindTableByIdentifier ==
    /\ anchorPc = "input"
    /\ found' = _find_table_by_identifier(text_content, table_identifier)
    /\ anchorPc' = "found"
    /\ UNCHANGED <<opened, text_content, table_identifier, outcome, normVars, validVars, matchVars, headerVars, bulkVars, fileVars, parseVars, webVars>>

\* the caller-facing extraction: extract_table_data on the same text
ExtractTableData ==
    /\ anchorPc = "input"
    /\ outcome' = extract_table_data(opened, text_content, table_identifier)
    /\ anchorPc' = "extracted"
    /\ UNCHANGED <<opened, text_content, table_identifier, found, normVars, validVars, matchVars, headerVars, bulkVars, fileVars, parseVars, webVars>>

AnchorNext == FindTableByIdentifier \/ ExtractTableData
-----------------------------------------------------------------------------
(* Match requests.  What a request meets is fixed when the run starts: the *)
(* document behind its source locator, whether a client is passed or can   *)
(* be created, and what the reasoning service answers.                     *)

MaxRawTables == 2
MaxPages == 2

RawTablePool ==
    { <<>>,
      << <<<<"A", "s", "s", "e", "t", "s">>, <<"2", "0", "2", "4">>>>, <<<<"C", "a", "s", "h">>, <<"$", "5">>>> >>,
      << <<<<"A", "c", "t", "i", "v", "i", "t", "y">>, NoneCell>>, <<<<"O", "p", "s">>, <<"1", ",", "0", "0", "0">>>>, <<<<"I", "n", "v">>>>,
         <<<<"F", "i", "n">>, <<"(", "7", ")">>, <<"x">>>>, <<<<"N", "e", "t">>, <<"-">>>> >> }

\* every document of at most p pages holding at most n raw tables
RECURSIVE SourcesOf(_, _)
SourcesOf(n, p) ==
    IF p = 0
    THEN { <<>> }
    ELSE { <<>> } \cup
         UNION { { <<page>> \o rest : page \in [1..k -> RawTablePool],
                                      rest \in SourcesOf(n - k, p - 1) }
                 : k \in 0..n }

Sources ==
    { Document(pages) : pages \in SourcesOf(MaxRawTables, MaxPages) } \cup { MissingFile }

Prompts == { "find the balance sheet", "cash flow" }

IndexValues ==
    { JInt(i) : i \in (-2)..(MaxRawTables + 1) } \cup
    { JFloat(100), JFloat(50), JStr(1), JNull, JList, JBool(TRUE), JBool(FALSE) }

ConfidenceValues ==
    { JFloat(90), JFloat(0), JFloat(100), JFloat(150), JFloat(-20),
      JInt(1), JInt(7), JStr(2), JNull }

Objects ==
    { << Member("matching_table_index", v), Member("match_confidence", JFloat(90)),
         Member("match_reasoning", JStr(3)) >> : v \in IndexValues } \cup
    { << Member("matching_table_index", JInt(i)), Member("match_confidence", c) >>
         : i \in 0..1, c \in ConfidenceValues } \cup
    { << Member("match_reasoning", JStr(3)), Member("matching_table_index", JInt(i)) >>
         : i \in 0..1 } \cup
    { <<>>,
      << Member("match_confidence", JFloat(90)) >>,
      << Member("matching_table_index", JInt(0)),
         Member("matching_table_index", JInt(1)) >>,
      << Member("matching_table_index", JInt(1)),
         Member("matching_table_index", JStr(1)) >> }

Wrapped ==
    { <<Prose, LBrace>> \o object \o <<RBrace, Prose>> :
         object \in { << Member("matching_table_index", JInt(i)) >> : i \in (-1)..1 } }

Malformed ==
    { <<>>, <<Prose>>, <<LBrace>>, <<RBrace>>, <<RBrace, Prose, LBrace>>,
      <<LBrace, Prose, RBrace>>,
      <<Prose, LBrace, Member("matching_table_index", JInt(0))>>,
      <<LBrace, LBrace, Member("matching_table_index", JInt(0)), RBrace>>,
      <<LBrace, Member("matching_table_index", JInt(0)), RBrace, Prose,
        LBrace, Member("matching_table_index", JInt(1)), RBrace>> }

ReplyTexts ==
    { <<LBrace>> \o object \o <<RBrace>> : object \in Objects } \cup Wrapped \cup Malformed

Services == { Reply(text) : text \in ReplyTexts } \cup { NoReply, ServiceRaises }

\* a client is passed, is created by get_bedrock_client(), or cannot be created
Environments ==
    ({"given"} \X Services)
    \cup ({"created"} \X { Reply(<<LBrace, Member("matching_table_index", JInt(0)), RBrace>>),
                          Reply(<<Prose>>), NoReply })
    \cup ({"unavailable"} \X { NoReply })

\* two requests at a time meet these
ConcSources ==
    { MissingFile,
      Document(<< << <<>> >> >>),
      Document(<< <<  << <<<<"A", "s", "s", "e", "t", "s">>, <<"2", "0", "2", "4">>>>, <<<<"C", "a", "s", "h">>, <<"$", "5">>>> >>  >> >>),
      Document(<< << <<>>, << <<<<"A", "s", "s", "e", "t", "s">>, <<"2", "0", "2", "4">>>>, <<<<"C", "a", "s", "h">>, <<"$", "5">>>> >> >>,
         << << <<<<"A", "c", "t", "i", "v", "i", "t", "y">>, NoneCell>>, <<<<"O", "p", "s">>, <<"1", ",", "0", "0", "0">>>>, <<<<"I", "n", "v">>>>,
               <<<<"F", "i", "n">>, <<"(", "7", ")">>, <<"x">>>>, <<<<"N", "e", "t">>, <<"-">>>> >> >> >>) }

ConcEnvironments ==
    ({"given"} \X { Reply(<<LBrace, Member("matching_table_index", JInt(1)),
                            Member("match_confidence", JFloat(90)), RBrace>>),
                    Reply(<<LBrace, Member("matching_table_index", JInt(0)), RBrace>>),
                    Reply(<<Prose>>), NoReply, ServiceRaises })
    \cup ({"unavailable"} \X { NoReply })

Pending == [pending |-> TRUE]

\* no match request is part of the run
MatchIdle ==
    /\ requests = {}
    /\ source = <<>>
    /\ prompt = <<>>
    /\ client = <<>>
    /\ service = <<>>
    /\ pc = <<>>
    /\ candidates = <<>>
    /\ sent = <<>>
    /\ reply = <<>>
    /\ matching = <<>>
    /\ result = <<>>
    /\ calls = <<>>

\* the requests `ids` start, each meeting a source of `sources` and an
\* environment of `environments`
MatchStart(ids, sources, environments) ==
    /\ requests = ids
    /\ source \in [ids -> sources]
    /\ prompt \in [ids -> Prompts]
    /\ \E env \in [ids -> environments] :
          /\ client = [r \in ids |-> env[r][1]]
          /\ service = [r \in ids |-> env[r][2]]
    /\ pc = [r \in ids |-> "start"]
    /\ candidates = [r \in ids |-> <<>>]
    /\ sent = [r \in ids |-> Pending]
    /\ reply = [r \in ids |-> NoReply]
    /\ matching = [r \in ids |-> Returned(NoMatch)]
    /\ result = [r \in ids |-> Pending]
    /\ calls = [r \in ids |-> 0]

\* lines 303-311: STEP 1, all tables are extracted from the source
Harvest(r) ==
    /\ pc[r] = "start"
    /\ LET extracted == extract_all_tables_from_pdf(source[r])
       IN  IF extracted.raised # ""
           THEN /\ result' = [result EXCEPT ![r] = FailedResult(extracted.raised)]
                /\ pc' = [pc EXCEPT ![r] = "done"]
                /\ UNCHANGED candidates
           ELSE IF extracted.value = <<>>
           THEN /\ result' = [result EXCEPT ![r] = NoTablesResult]
                /\ pc' = [pc EXCEPT ![r] = "done"]
                /\ UNCHANGED candidates
           ELSE /\ candidates' = [candidates EXCEPT ![r] = extracted.value]
                /\ pc' = [pc EXCEPT ![r] = "harvested"]
                /\ UNCHANGED result
    /\ UNCHANGED <<requests, source, prompt, client, service, sent, reply,
                   matching, calls, normVars, validVars, anchorVars, headerVars, bulkVars, fileVars, parseVars, webVars>>

\* lines 314-315: the client is the one passed, or get_bedrock_client()
AcquireClient(r) ==
    /\ pc[r] = "harvested"
    /\ IF client[r] = "unavailable"
       THEN /\ result' = [result EXCEPT ![r] = FailedResult("NoCredentialsError")]
            /\ pc' = [pc EXCEPT ![r] = "done"]
       ELSE /\ pc' = [pc EXCEPT ![r] = "ready"]
            /\ UNCHANGED result
    /\ UNCHANGED <<requests, source, prompt, client, service, candidates, sent,
                   reply, matching, calls, normVars, validVars, anchorVars, headerVars, bulkVars, fileVars, parseVars, webVars>>

\* the service is asked again whenever it gave no text
InvokeServiceAgain(r) ==
    /\ pc[r] = "ready"
    /\ calls[r] < 3
    /\ sent' = [sent EXCEPT ![r] = [request |-> prompt[r],
                                    tables  |-> TablesSummary(candidates[r])]]
    /\ reply' = [reply EXCEPT ![r] = service[r]]
    /\ calls' = [calls EXCEPT ![r] = @ + 1]
    /\ pc' = [pc EXCEPT ![r] = IF service[r].kind = "text" /\ service[r].text # <<>>
                               THEN "replied" ELSE "ready"]
    /\ UNCHANGED <<requests, source, prompt, client, service, candidates,
                   matching, result, normVars, validVars, anchorVars, headerVars, bulkVars, fileVars, parseVars, webVars>>

\* lines 360-405: the summary is built and sent, the one blocking call
InvokeService(r) ==
    /\ pc[r] = "ready"
    /\ sent' = [sent EXCEPT ![r] = [request |-> prompt[r],
                                    tables  |-> TablesSummary(candidates[r])]]
    /\ reply' = [reply EXCEPT ![r] = service[r]]
    /\ calls' = [calls EXCEPT ![r] = @ + 1]
    /\ pc' = [pc EXCEPT ![r] = "replied"]
    /\ UNCHANGED <<requests, source, prompt, client, service, candidates,
                   matching, result, normVars, validVars, anchorVars, headerVars, bulkVars, fileVars, parseVars, webVars>>

\* lines 407-438 and 319-338: the reply is read and the result is built
Resolve(r) ==
    /\ pc[r] = "replied"
    /\ matching' = [matching EXCEPT ![r] =
                       _find_matching_table_with_llm(candidates[r], reply[r])]
    /\ candidates' = [candidates EXCEPT ![r] =
                         AllTablesAfterMatch(candidates[r], reply[r])]
    /\ result' = [result EXCEPT ![r] =
                     MatchResult(candidates'[r], prompt[r], matching'[r])]
    /\ pc' = [pc EXCEPT ![r] = "done"]
    /\ UNCHANGED <<requests, source, prompt, client, service, sent, reply,
                   calls, normVars, validVars, anchorVars, headerVars, bulkVars, fileVars, parseVars, webVars>>

MatchNext ==
    \E r \in requests :
        Harvest(r) \/ AcquireClient(r) \/ InvokeService(r) \/ Resolve(r)
-----------------------------------------------------------------------------
(* Rows fed to the row classifier.                                         *)

MaxRowCells == 3

RowCells ==
    { <<>>, <<"Y", "e", "a", "r">>, <<"2", "0", "2", "4">>, <<"1", "9", "9", "9">>, <<"J", "a", "n", "u", "a", "r", "y", " ", "5">>, <<"C", "a", "s", "h", " ", "e", "q", "u", "i", "v", "a", "l", "e", "n", "t", "s">>,
      <<"2", "3", "4", "6", "6">>, <<"R", "e", "v", "e", "n", "u", "e">>, <<"1", "2", "3", "4">>, <<"A", "m", "o", "u", "n", "t", " ", "i", "n", " ", "m", "i", "l", "l", "i", "o", "n", "s">>, <<"F", "a", "i", "r", " ", "v", "a", "l", "u", "e">>,
      <<"L", "e", "v", "e", "l", " ", "1">>, <<"A", "s", "s", "e", "t", "s">>, <<"j", "u", "n", "e", "s", "a", "l", "e", "s", " ", "5">>, <<"d", "e", "c", "e", "m", "b", "e", "r", "5">>, <<"t", "y", "p", "e", "d", " ", "7">>,
      <<"A", "s", " ", "o", "f", " ", "2", "0", "2", "4">>, <<"D", "e", "c", "e", "m", "b", "e", "r", " ", "3", "1", ",", " ", "2", "0", "2", "3">>, <<"R", "e", "v", "e", "n", "u", "e", " ", "2", "0", "2", "4">>, <<"C", "a", "s", "h", " ", "f", "l", "o", "w", "s", " ", "2", "0", "2", "4">> }

Rows == UNION { [1..k -> RowCells] : k \in 0..MaxRowCells }

\* the row classifier is not part of the run
HeaderIdle ==
    /\ headerPc = "idle"
    /\ header_row = <<>>
    /\ potential_header = FALSE
    /\ date_header = Returned(FALSE)

\* the segmenter asks whether the row is a header
ClassifyHeader ==
    /\ headerPc = "input"
    /\ potential_header' = _is_potential_header(header_row)
    /\ headerPc' = "classified"
    /\ UNCHANGED <<header_row, date_header, normVars, validVars, anchorVars, matchVars, bulkVars,
                   fileVars, parseVars, webVars>>

\* the tests ask whether the row is a date stamp
DistinguishDates ==
    /\ headerPc = "classified"
    /\ date_header' = _distinguish_dates_from_data(header_row)
    /\ headerPc' = "distinguished"
    /\ UNCHANGED <<header_row, potential_header, normVars, validVars, anchorVars, matchVars, bulkVars,
                   fileVars, parseVars, webVars>>

HeaderNext == ClassifyHeader \/ DistinguishDates

-----------------------------------------------------------------------------
(* Sources fed to bulk extraction: the raw tables of the pages for the     *)
(* pdfplumber path, the text of the pages for the fallback path.           *)

BulkTexts ==
    { JoinLines(lines) :
        lines \in StringsUpTo(LinePool \cup {<<"a", "|", "b", "|", "1">>, <<"x", "\t", "1", "\t", "2", "2">>, <<"S", "u", "m", " ", " ", "1", " ", " ", "2">>},
                              MaxLines) }

\* bulk extraction is not part of the run
BulkIdle ==
    /\ bulkPc = "idle"
    /\ use_pdfplumber = TRUE
    /\ bulk_source = MissingFile
    /\ bulk_text = <<>>
    /\ bulk_tables = Returned(<<>>)

\* lines 80-119: extract_all_tables_from_pdf where pdfplumber is installed
ExtractWithPdfplumber ==
    /\ bulkPc = "input"
    /\ use_pdfplumber
    /\ bulk_tables' = extract_all_tables_from_pdf(bulk_source)
    /\ bulkPc' = "done"
    /\ UNCHANGED <<use_pdfplumber, bulk_source, bulk_text,
                   normVars, validVars, anchorVars, matchVars, headerVars,
                   fileVars, parseVars, webVars>>

\* lines 120-129: extract_all_tables_from_pdf where it is not; bulk_text is
\* the text _extract_text_from_pdf reads from the document
ExtractFromText ==
    /\ bulkPc = "input"
    /\ ~use_pdfplumber
    /\ bulk_tables' =
           IF ~bulk_source.exists
           THEN Raised("FileNotFoundError")
           ELSE Returned(_extract_all_tables_from_text(bulk_text))
    /\ bulkPc' = "done"
    /\ UNCHANGED <<use_pdfplumber, bulk_source, bulk_text,
                   normVars, validVars, anchorVars, matchVars, headerVars,
                   fileVars, parseVars, webVars>>

BulkNext == ExtractWithPdfplumber \/ ExtractFromText
-----------------------------------------------------------------------------
(* Threads that call the manager while its monitor thread runs.  A call    *)
(* that changes the registry takes the lock in one step and writes the     *)
(* metadata file, notifies the callback and gives the lock back in the     *)
(* next.  sync_lock is the thread that holds the lock, 0 when no thread    *)
(* holds it and -1 when the monitor does.                                  *)

MaxThreads == 3
MaxCalls == 2
MaxClock == 1
MaxVersion == 2

Threads == 1..MaxThreads

\* the workbook thread number t opens when every thread opens its own
FileOf(t) == Path(t, ".xlsx")

\* a text file, a file with the suffix of a workbook that is none, and a
\* path with no file
FilePaths ==
    {FileOf(t) : t \in Threads}
        \cup {Path(0, ".txt"), Path(0, ".xlsx"), Path(-1, ".xlsx")}

\* a file id that the registry does not hold
UnknownId == <<Path(-1, ".xlsx"), -1>>

\* lines 44-71: a manager made on an empty directory, its monitor started
FileStart ==
    /\ excel_registry = EmptyDict
    /\ metadata_file = [exists |-> FALSE, data |-> EmptyDict]
    /\ sync_lock = 0
    /\ needs_sync = FALSE
    /\ clock = 0
    /\ filePc = [t \in Threads |-> "idle"]
    /\ held = [t \in Threads |-> [file_id |-> UnknownId, file_path |-> Path(-1, ".xlsx"),
                                  file_hash |-> 0, op |-> ""]]
    /\ returned = [t \in Threads |-> Raised("")]
    /\ sync_events = EmptyDict
    /\ _sync_monitor_active = TRUE
    /\ monitor_stopped = FALSE
    /\ shutdownPc = "none"

\* no thread calls the manager
FileIdle ==
    /\ FileStart
    /\ disk = EmptyDict
    /\ calls_left = [t \in Threads |-> 0]

\* thread t is back from a call that did not take the lock
Back(t, answer) ==
    /\ returned' = [returned EXCEPT ![t] = answer]
    /\ filePc' = [filePc EXCEPT ![t] = "idle"]

\* thread t holds the lock on its way to _sync_metadata_immediate
Locked(t, file_id, op) ==
    /\ sync_lock' = t
    /\ filePc' = [filePc EXCEPT ![t] = "syncing"]
    /\ held' = [held EXCEPT ![t].file_id = file_id, ![t].op = op]

\* lines 89-104 of open_excel_file: what is done before the lock is taken
OpenBegin(t, file_path) ==
    /\ filePc[t] = "idle"
    /\ calls_left[t] > 0
    /\ calls_left' = [calls_left EXCEPT ![t] = @ - 1]
    /\ IF file_path \notin DOMAIN disk
       THEN Back(t, Raised("FileNotFoundError")) /\ UNCHANGED held
       ELSE IF file_path.suffix \notin {".xlsx", ".xls", ".xlsm"}
       THEN Back(t, Raised("ValueError")) /\ UNCHANGED held
       ELSE /\ filePc' = [filePc EXCEPT ![t] = "opening"]
            /\ held' = [held EXCEPT ![t] =
                           [ file_id   |-> _generate_file_id(file_path, clock),
                             file_path |-> file_path,
                             file_hash |-> disk[file_path],
                             op        |-> "open" ]]
            /\ UNCHANGED returned
    /\ UNCHANGED <<excel_registry, metadata_file, disk, sync_lock, needs_sync,
                   clock, sync_events>>
    /\ UNCHANGED <<_sync_monitor_active, monitor_stopped, shutdownPc>>
    /\ UNCHANGED <<normVars, validVars, anchorVars, matchVars, headerVars, bulkVars, parseVars, webVars>>

\* lines 106-124 of open_excel_file: the lock is taken, the workbook is
\* loaded and the record is put in the registry
OpenRegister(t) ==
    /\ filePc[t] = "opening"
    /\ sync_lock = 0
    /\ IF held[t].file_path \notin DOMAIN disk \/ disk[held[t].file_path] = 0
       THEN /\ Back(t, Raised("IOError"))
            /\ UNCHANGED <<excel_registry, sync_lock, held>>
       ELSE /\ excel_registry' =
                   Put(excel_registry, held[t].file_id,
                       [ file_path   |-> held[t].file_path,
                         file_hash   |-> held[t].file_hash,
                         sync_status |-> "synced",
                         is_open     |-> TRUE ])
            /\ Locked(t, held[t].file_id, "open")
            /\ UNCHANGED returned
    /\ UNCHANGED <<metadata_file, disk, needs_sync, clock, sync_events, calls_left>>
    /\ UNCHANGED <<_sync_monitor_active, monitor_stopped, shutdownPc>>
    /\ UNCHANGED <<normVars, validVars, anchorVars, matchVars, headerVars, bulkVars, parseVars, webVars>>

\* lines 156-177 and 189-193 of save_excel_file, to the default path; `saved`
\* is whether workbook.save succeeds
SaveBegin(t, file_id, saved) ==
    /\ filePc[t] = "idle"
    /\ calls_left[t] > 0
    /\ sync_lock = 0
    /\ calls_left' = [calls_left EXCEPT ![t] = @ - 1]
    /\ IF file_id \notin DOMAIN excel_registry
       THEN /\ Back(t, Raised("ValueError"))
            /\ UNCHANGED <<excel_registry, disk, sync_lock, held>>
       ELSE LET target_path == excel_registry[file_id].file_path
                version == IF target_path \in DOMAIN disk
                           THEN disk[target_path] + 1
                           ELSE 1
            IN  IF saved
                THEN /\ disk' = Put(disk, target_path, version)
                     /\ excel_registry' =
                            [excel_registry EXCEPT ![file_id].file_hash = version,
                                                   ![file_id].sync_status = "synced"]
                     /\ Locked(t, file_id, "save")
                     /\ UNCHANGED returned
                ELSE /\ excel_registry' =
                            [excel_registry EXCEPT ![file_id].sync_status = "error"]
                     /\ Back(t, Returned(FALSE))
                     /\ UNCHANGED <<disk, sync_lock, held>>
    /\ UNCHANGED <<metadata_file, needs_sync, clock, sync_events>>
    /\ UNCHANGED <<_sync_monitor_active, monitor_stopped, shutdownPc>>
    /\ UNCHANGED <<normVars, validVars, anchorVars, matchVars, headerVars, bulkVars, parseVars, webVars>>

\* lines 215-224 of close_excel_file
CloseBegin(t, file_id) ==
    /\ filePc[t] = "idle"
    /\ calls_left[t] > 0
    /\ sync_lock = 0
    /\ calls_left' = [calls_left EXCEPT ![t] = @ - 1]
    /\ IF file_id \notin DOMAIN excel_registry
       THEN /\ Back(t, Returned(FALSE))
            /\ UNCHANGED <<excel_registry, sync_lock, held>>
       ELSE /\ excel_registry' =
                   [excel_registry EXCEPT ![file_id].is_open = FALSE,
                                          ![file_id].sync_status = "synced"]
            /\ Locked(t, file_id, "close")
            /\ UNCHANGED returned
    /\ UNCHANGED <<metadata_file, disk, needs_sync, clock, sync_events>>
    /\ UNCHANGED <<_sync_monitor_active, monitor_stopped, shutdownPc>>
    /\ UNCHANGED <<normVars, validVars, anchorVars, matchVars, headerVars, bulkVars, parseVars, webVars>>

\* lines 253-260 of remove_excel_file
RemoveBegin(t, file_id) ==
    /\ filePc[t] = "idle"
    /\ calls_left[t] > 0
    /\ sync_lock = 0
    /\ calls_left' = [calls_left EXCEPT ![t] = @ - 1]
    /\ IF file_id \notin DOMAIN excel_registry
       THEN /\ Back(t, Returned(FALSE))
            /\ UNCHANGED <<excel_registry, sync_lock, held>>
       ELSE /\ excel_registry' =
                   [k \in DOMAIN excel_registry \ {file_id} |-> excel_registry[k]]
            /\ Locked(t, file_id, "remove")
            /\ UNCHANGED returned
    /\ UNCHANGED <<metadata_file, disk, needs_sync, clock, sync_events>>
    /\ UNCHANGED <<_sync_monitor_active, monitor_stopped, shutdownPc>>
    /\ UNCHANGED <<normVars, validVars, anchorVars, matchVars, headerVars, bulkVars, parseVars, webVars>>

\* lines 272-276 of force_sync
ForceSyncBegin(t) ==
    /\ filePc[t] = "idle"
    /\ calls_left[t] > 0
    /\ sync_lock = 0
    /\ calls_left' = [calls_left EXCEPT ![t] = @ - 1]
    /\ Locked(t, UnknownId, "force_sync")
    /\ UNCHANGED <<excel_registry, metadata_file, disk, needs_sync, clock,
                   returned, sync_events>>
    /\ UNCHANGED <<_sync_monitor_active, monitor_stopped, shutdownPc>>
    /\ UNCHANGED <<normVars, validVars, anchorVars, matchVars, headerVars, bulkVars, parseVars, webVars>>

\* the rest of the call of thread t: the metadata file is written, the
\* callback is called (lines 130-134, 180-184, 230-234), the lock is given
\* back and the call returns
SyncAndNotify(t) ==
    /\ filePc[t] = "syncing"
    /\ metadata_file' = _sync_metadata_immediate(excel_registry)
    /\ sync_events' =
           IF held[t].op \in {"open", "save", "close"}
           THEN Put(sync_events, held[t].file_id,
                    IF held[t].file_id \in DOMAIN sync_events
                    THEN sync_events[held[t].file_id] + 1
                    ELSE 1)
           ELSE sync_events
    /\ sync_lock' = 0
    /\ Back(t, Returned(IF held[t].op = "open" THEN held[t].file_id ELSE TRUE))
    /\ UNCHANGED <<excel_registry, disk, needs_sync, clock, held, calls_left>>
    /\ UNCHANGED <<_sync_monitor_active, monitor_stopped, shutdownPc>>
    /\ UNCHANGED <<normVars, validVars, anchorVars, matchVars, headerVars, bulkVars, parseVars, webVars>>

\* lines 346-365 of _sync_monitor: the monitor wakes from its sleep, takes
\* the lock and compares every record with its file
MonitorBegin ==
    /\ ~monitor_stopped
    /\ sync_lock = 0
    /\ sync_lock' = -1
    /\ excel_registry' = MonitorPass(excel_registry, disk)
    /\ needs_sync' =
           \E file_id \in DOMAIN excel_registry :
               \/ excel_registry[file_id].file_path \notin DOMAIN disk
               \/ disk[excel_registry[file_id].file_path]
                      # excel_registry[file_id].file_hash
    /\ UNCHANGED <<metadata_file, disk, clock, filePc, held, returned,
                   sync_events, calls_left>>
    /\ UNCHANGED <<_sync_monitor_active, monitor_stopped, shutdownPc>>
    /\ UNCHANGED <<normVars, validVars, anchorVars, matchVars, headerVars, bulkVars, parseVars, webVars>>

\* lines 367-368 and 344 of _sync_monitor: the metadata file is written, the
\* lock given back, and the loop goes on while _sync_monitor_active is set
MonitorEnd ==
    /\ sync_lock = -1
    /\ metadata_file' =
           IF needs_sync
           THEN _sync_metadata_immediate(excel_registry)
           ELSE metadata_file
    /\ needs_sync' = FALSE
    /\ sync_lock' = 0
    /\ UNCHANGED <<excel_registry, disk, clock, filePc, held, returned,
                   sync_events, calls_left>>
    /\ monitor_stopped' = ~_sync_monitor_active
    /\ UNCHANGED <<_sync_monitor_active, shutdownPc>>
    /\ UNCHANGED <<normVars, validVars, anchorVars, matchVars, headerVars, bulkVars, parseVars, webVars>>

\* time.time() moves on
Tick ==
    /\ clock < MaxClock
    /\ clock' = clock + 1
    /\ UNCHANGED <<excel_registry, metadata_file, disk, sync_lock, needs_sync,
                   filePc, held, returned, sync_events, calls_left>>
    /\ UNCHANGED <<_sync_monitor_active, monitor_stopped, shutdownPc>>
    /\ UNCHANGED <<normVars, validVars, anchorVars, matchVars, headerVars, bulkVars, parseVars, webVars>>

\* another program writes the file of a record, or deletes it
ExternalChange(file_path, deleted) ==
    /\ file_path \in DOMAIN disk
    /\ \E file_id \in DOMAIN excel_registry :
           excel_registry[file_id].file_path = file_path
    /\ disk[file_path] \in 1..(MaxVersion - 1)
    /\ disk' = IF deleted
               THEN [k \in DOMAIN disk \ {file_path} |-> disk[k]]
               ELSE [disk EXCEPT ![file_path] = @ + 1]
    /\ UNCHANGED <<excel_registry, metadata_file, sync_lock, needs_sync, clock,
                   filePc, held, returned, sync_events, calls_left>>
    /\ UNCHANGED <<_sync_monitor_active, monitor_stopped, shutdownPc>>
    /\ UNCHANGED <<normVars, validVars, anchorVars, matchVars, headerVars, bulkVars, parseVars, webVars>>

\* lines 374-376 of shutdown: the flag is cleared and the monitor thread is
\* joined
ShutdownBegin ==
    /\ shutdownPc = "none"
    /\ _sync_monitor_active' = FALSE
    /\ shutdownPc' = "joining"
    /\ UNCHANGED <<excel_registry, metadata_file, disk, sync_lock, needs_sync,
                   clock, filePc, held, returned, sync_events, calls_left,
                   monitor_stopped>>
    /\ UNCHANGED <<normVars, validVars, anchorVars, matchVars, headerVars, bulkVars, parseVars, webVars>>

\* line 376: join(timeout=1.0) is over, the monitor thread having ended
\* (timed_out false) or one second having passed while it sleeps or waits
ShutdownJoined(timed_out) ==
    /\ shutdownPc = "joining"
    /\ timed_out \/ monitor_stopped
    /\ shutdownPc' = "locking"
    /\ UNCHANGED <<excel_registry, metadata_file, disk, sync_lock, needs_sync,
                   clock, filePc, held, returned, sync_events, calls_left,
                   _sync_monitor_active, monitor_stopped>>
    /\ UNCHANGED <<normVars, validVars, anchorVars, matchVars, headerVars, bulkVars, parseVars, webVars>>

\* lines 378-380: the final sync under the lock, and shutdown returns
ShutdownSync ==
    /\ shutdownPc = "locking"
    /\ sync_lock = 0
    /\ metadata_file' = _sync_metadata_immediate(excel_registry)
    /\ shutdownPc' = "returned"
    /\ UNCHANGED <<excel_registry, disk, sync_lock, needs_sync,
                   clock, filePc, held, returned, sync_events, calls_left,
                   _sync_monitor_active, monitor_stopped>>
    /\ UNCHANGED <<normVars, validVars, anchorVars, matchVars, headerVars, bulkVars, parseVars, webVars>>

\* every thread opens its own workbook while the monitor runs
OpensNext ==
    \/ \E t \in Threads : OpenBegin(t, FileOf(t))
    \/ \E t \in Threads : OpenRegister(t)
    \/ \E t \in Threads : SyncAndNotify(t)
    \/ MonitorBegin
    \/ MonitorEnd
    \/ Tick

\* any calls, while the monitor runs and the files change
FileNext ==
    \/ \E t \in Threads : \E file_path \in FilePaths : OpenBegin(t, file_path)
    \/ \E t \in Threads : OpenRegister(t)
    \/ \E t \in Threads : \E file_id \in DOMAIN excel_registry \cup {UnknownId} :
           \E saved \in BOOLEAN : SaveBegin(t, file_id, saved)
    \/ \E t \in Threads : \E file_id \in DOMAIN excel_registry \cup {UnknownId} :
           CloseBegin(t, file_id)
    \/ \E t \in Threads : \E file_id \in DOMAIN excel_registry \cup {UnknownId} :
           RemoveBegin(t, file_id)
    \/ \E t \in Threads : ForceSyncBegin(t)
    \/ \E t \in Threads : SyncAndNotify(t)
    \/ MonitorBegin
    \/ MonitorEnd
    \/ Tick
    \/ \E file_path \in FilePaths : \E deleted \in BOOLEAN :
           ExternalChange(file_path, deleted)


\* the threads open workbooks, the files change, and the manager is shut down
ShutdownNext ==
    \/ \E t \in Threads : OpenBegin(t, FileOf(t))
    \/ \E t \in Threads : OpenRegister(t)
    \/ \E t \in Threads : SyncAndNotify(t)
    \/ MonitorBegin
    \/ MonitorEnd
    \/ \E file_path \in FilePaths : \E deleted \in BOOLEAN :
           ExternalChange(file_path, deleted)
    \/ ShutdownBegin
    \/ \E timed_out \in BOOLEAN : ShutdownJoined(timed_out)
    \/ ShutdownSync
-----------------------------------------------------------------------------
(* Lines fed to the line parsers: whole lines for _parse_table_lines, and  *)
(* every short line over a small alphabet for _parse_table_row.            *)

MaxParseLines == 3

MaxRowLen == 5

ParseLinePool ==
    { <<"T", "e", "a", " ", " ", "5">>, <<"M", "i", "l", "k", " ", " ", "7">>, <<"R", "e", "v", "e", "n", "u", "e", " ", "R", "e", "p", "o", "r", "t">>, <<"T", "o", "t", "a", "l", " ", " ", "5">>, <<"S", "u", "m", " ", " ", "3">>,
      <<"N", "o", "t", "e", "s", ":", " ", "x">>, <<>> }

ParseLineLists == StringsUpTo(ParseLinePool, MaxParseLines)

RowAlphabet == {"a", "1", ",", " ", "\t"}

\* lines that mix the kinds of white space
SeedRowLines ==
    { <<"a", " ", " ", "b", " ", "\t", "c">>, <<"a", "\f", "b">>,
      <<"a", "\t", "b", " ", "\t", "c">> }

RowLines == StringsUpTo(RowAlphabet, MaxRowLen) \cup SeedRowLines

\* the line parsers are not part of the run
ParseIdle ==
    /\ parsePc = "idle"
    /\ parse_lines = <<>>
    /\ parsed_table = <<>>
    /\ row_line = <<>>
    /\ parsed_row = <<>>

\* lines 545-581: one call of _parse_table_lines
ParseTableLines ==
    /\ parsePc = "lines"
    /\ parsed_table' = _parse_table_lines(parse_lines)
    /\ parsePc' = "parsed"
    /\ UNCHANGED <<parse_lines, row_line, parsed_row,
                   normVars, validVars, anchorVars, matchVars, headerVars,
                   bulkVars, fileVars, webVars>>

\* lines 641-686: one call of _parse_table_row
ParseTableRow ==
    /\ parsePc = "row"
    /\ parsed_row' = _parse_table_row(row_line)
    /\ parsePc' = "split"
    /\ UNCHANGED <<parse_lines, parsed_table, row_line,
                   normVars, validVars, anchorVars, matchVars, headerVars,
                   bulkVars, fileVars, webVars>>

ParseNext == ParseTableLines \/ ParseTableRow
-----------------------------------------------------------------------------
(* Values fed to sanitize_data, and the calls of WebExtractor.extract_table *)
(* with what the browser and the strategy do in each.                      *)

MaxTextLen == 3

MaxExtractions == 2

SanAlphabet == {"=", "+", "-", "@", " ", "a", "'"}

SeedTexts ==
    { <<"<", "s", "c", "r", "i", "p", "t", ">", "x", "<", "/", "s", "c", "r", "i", "p", "t", ">", "=", "1">>, <<"j", "a", "v", "a", "s", "c", "r", "i", "p", "t", ":", "=", "1">>, <<"o", "n", "c", "l", "i", "c", "k", " ", "=", " ", "-", "1">>, <<" ", "=", "1", "+", "1">>,
      <<"<", "b", ">", "T", "e", "a", "<", "/", "b", ">">>, <<"o", "n", " ", "a", "=", "1">> }

SanTexts == StringsUpTo(SanAlphabet, MaxTextLen) \cup SeedTexts

NestedTexts == {<<"T", "e", "a">>, <<" ", "=", "1">>, <<"-", "a">>, <<"o", "n", "x", "=", "@", "a">>}

SanValues ==
    {[type |-> "str", val |-> t] : t \in SanTexts}
        \cup {[type |-> "list",
               val  |-> <<[type |-> "str", val |-> a],
                          [type |-> "list",
                           val  |-> <<[type |-> "str", val |-> b]>>]>>] :
                 a \in NestedTexts, b \in NestedTexts}
        \cup {[type |-> "dict",
               val  |-> << <<<<"t", "y", "p", "e">>, [type |-> "str", val |-> a]>>,
                           <<<<"r", "o", "w", "s">>, [type |-> "int", val |-> 1]>> >>] :
                 a \in NestedTexts}
        \cup {[type |-> "int", val |-> 1]}

StartOutcomes == {"ok", "no_browser", "no_timeout"}

RowOf(text) == [type |-> "list", val |-> <<[type |-> "str", val |-> text]>>]

StrategyResults ==
    {[outcome |-> o, headers |-> RowOf(<<>>), data |-> RowOf(<<>>)] :
        o \in {"none", "error", "no_data", "TimeoutException",
               "WebDriverException", "ValueError"}}
        \cup {[outcome |-> "table", headers |-> h,
               data |-> [type |-> "list", val |-> <<RowOf(d)>>]] :
                 h \in {[type |-> "list", val |-> <<>>], RowOf(<<"H", "e", "a", "d", "e", "r">>)},
                 d \in {<<"D", "a", "t", "a">>, <<" ", "=", "1">>}}

\* the web extractor is not part of the run
WebIdle ==
    /\ sanPc = "idle"
    /\ raw_data = [type |-> "int", val |-> 1]
    /\ sanitized = [type |-> "int", val |-> 1]
    /\ webPc = "idle"
    /\ driver = NoDriver
    /\ _active_drivers = {}
    /\ drivers_made = 0
    /\ setup_tries = 0
    /\ plan_of_starts = <<"ok", "ok">>
    /\ quit_fails = FALSE
    /\ cleanups = 0
    /\ web_result = Returned(<<>>)
    /\ extractions = 0

\* web_extractor.py lines 89-107: one call of sanitize_data
SanitizeWeb ==
    /\ sanPc = "web"
    /\ sanitized' = sanitize_data(raw_data)
    /\ sanPc' = "sanitized"
    /\ UNCHANGED <<raw_data, webPc, driver, _active_drivers, drivers_made,
                   setup_tries, plan_of_starts, quit_fails, cleanups,
                   web_result, extractions,
                   normVars, validVars, anchorVars, matchVars, headerVars,
                   bulkVars, fileVars, parseVars>>

\* lambda_web_extractor.py lines 66-86: one call of its sanitize_data
SanitizeLambda ==
    /\ sanPc = "lambda"
    /\ sanitized' = sanitize_data(raw_data)
    /\ sanPc' = "sanitized"
    /\ UNCHANGED <<raw_data, webPc, driver, _active_drivers, drivers_made,
                   setup_tries, plan_of_starts, quit_fails, cleanups,
                   web_result, extractions,
                   normVars, validVars, anchorVars, matchVars, headerVars,
                   bulkVars, fileVars, parseVars>>

SanitizeNext == SanitizeWeb \/ SanitizeLambda

\* self.driver, the registry and the browsers started, as the operators of
\* the set-up and the clean-up take them
WebState ==
    [driver |-> driver, active |-> _active_drivers, made |-> drivers_made,
     tries |-> 0, raised |-> ""]

\* line 128: extract_table is called; the plan says what the browser does at
\* each start, quit_raises whether driver.quit() raises
ExtractTable(plan, quit_raises) ==
    /\ webPc \in {"ready", "done"}
    /\ extractions < MaxExtractions
    /\ extractions' = extractions + 1
    /\ plan_of_starts' = plan
    /\ quit_fails' = quit_raises
    /\ cleanups' = 0
    /\ setup_tries' = 0
    /\ webPc' = "setup"
    /\ UNCHANGED <<sanPc, raw_data, sanitized, driver, _active_drivers,
                   drivers_made, web_result,
                   normVars, validVars, anchorVars, matchVars, headerVars,
                   bulkVars, fileVars, parseVars>>

\* lines 148 and 184-186: self._setup_driver(); what it raises is raised
\* again as WebExtractionError("Extraction failed: ...")
SetupDriver ==
    /\ webPc = "setup"
    /\ LET after == _setup_driver(WebState, plan_of_starts)
       IN  /\ driver' = after.driver
           /\ _active_drivers' = after.active
           /\ drivers_made' = after.made
           /\ setup_tries' = after.tries
           /\ IF after.raised = ""
              THEN webPc' = "strategy" /\ UNCHANGED web_result
              ELSE webPc' = "finally" /\ web_result' = Raised("WebExtractionError")
    /\ UNCHANGED <<sanPc, raw_data, sanitized, plan_of_starts, quit_fails,
                   cleanups, extractions,
                   normVars, validVars, anchorVars, matchVars, headerVars,
                   bulkVars, fileVars, parseVars>>

\* lines 150-186: the strategy extracts, and the result is returned or an
\* error is raised
RunStrategy(strategy_result) ==
    /\ webPc = "strategy"
    /\ web_result' = TableOf(strategy_result)
    /\ webPc' = "finally"
    /\ UNCHANGED <<sanPc, raw_data, sanitized, driver, _active_drivers,
                   drivers_made, setup_tries, plan_of_starts, quit_fails,
                   cleanups, extractions,
                   normVars, validVars, anchorVars, matchVars, headerVars,
                   bulkVars, fileVars, parseVars>>

\* lines 187-188: finally: self._cleanup()
Cleanup ==
    /\ webPc = "finally"
    /\ LET after == _cleanup(WebState, quit_fails)
       IN  /\ driver' = after.driver
           /\ _active_drivers' = after.active
    /\ cleanups' = cleanups + 1
    /\ webPc' = "done"
    /\ UNCHANGED <<sanPc, raw_data, sanitized, drivers_made, setup_tries,
                   plan_of_starts, quit_fails, web_result, extractions,
                   normVars, validVars, anchorVars, matchVars, headerVars,
                   bulkVars, fileVars, parseVars>>

WebNext ==
    \/ \E plan \in [1..2 -> StartOutcomes], quit_raises \in BOOLEAN :
           ExtractTable(plan, quit_raises)
    \/ SetupDriver
    \/ \E strategy_result \in StrategyResults : RunStrategy(strategy_result)
    \/ Cleanup
-----------------------------------------------------------------------------
(* Specifications: one per component, the other components idle.           *)

NormInit ==
    /\ normPc = "input"
    /\ cell \in Cells
    /\ normalized = <<>>
    /\ renormalized = <<>>
    /\ ValidIdle
    /\ AnchorIdle
    /\ MatchIdle
    /\ HeaderIdle
    /\ BulkIdle
    /\ FileIdle
    /\ ParseIdle
    /\ WebIdle

SpecNorm == NormInit /\ [][NormNext]_vars

ValidInit ==
    /\ \/ /\ validPc = "table"
          /\ table_data \in Tables
          /\ min_numerical_threshold \in Thresholds
          /\ probe = <<>>
       \/ /\ validPc = "cell"
          /\ table_data = <<>>
          /\ min_numerical_threshold = DefaultThreshold
          /\ probe \in ProbeCells
    /\ valid = FALSE
    /\ meaningful = FALSE
    /\ NormIdle
    /\ AnchorIdle
    /\ MatchIdle
    /\ HeaderIdle
    /\ BulkIdle
    /\ FileIdle
    /\ ParseIdle
    /\ WebIdle

SpecValid == ValidInit /\ [][ValidNext]_vars

AnchorInit ==
    /\ anchorPc = "input"
    /\ opened \in {"document", "none", "missing"}
    /\ text_content \in Texts
    /\ table_identifier \in Identifiers
    /\ found = None
    /\ outcome = Returned(<<>>)
    /\ NormIdle
    /\ ValidIdle
    /\ MatchIdle
    /\ HeaderIdle
    /\ BulkIdle
    /\ FileIdle
    /\ ParseIdle
    /\ WebIdle

SpecAnchor == AnchorInit /\ [][AnchorNext]_vars

MatchInit ==
    /\ MatchStart({1}, Sources, Environments)
    /\ NormIdle
    /\ ValidIdle
    /\ AnchorIdle
    /\ HeaderIdle
    /\ BulkIdle
    /\ FileIdle
    /\ ParseIdle
    /\ WebIdle

\* one match request
SpecMatch == MatchInit /\ [][MatchNext]_vars

ConcInit ==
    /\ MatchStart({1, 2}, ConcSources, ConcEnvironments)
    /\ NormIdle
    /\ ValidIdle
    /\ AnchorIdle
    /\ HeaderIdle
    /\ BulkIdle
    /\ FileIdle
    /\ ParseIdle
    /\ WebIdle

\* two match requests on their own sources, their steps interleaved
SpecConc == ConcInit /\ [][MatchNext]_vars

HeaderInit ==
    /\ headerPc = "input"
    /\ header_row \in Rows
    /\ potential_header = FALSE
    /\ date_header = Returned(FALSE)
    /\ NormIdle
    /\ ValidIdle
    /\ AnchorIdle
    /\ MatchIdle
    /\ BulkIdle
    /\ FileIdle
    /\ ParseIdle
    /\ WebIdle

\* the row classifier applied to one row
SpecHeader == HeaderInit /\ [][HeaderNext]_vars


BulkInit ==
    /\ bulkPc = "input"
    /\ use_pdfplumber \in BOOLEAN
    /\ \/ use_pdfplumber /\ bulk_source \in Sources /\ bulk_text = <<>>
       \/ ~use_pdfplumber /\ bulk_source = Document(<<>>) /\ bulk_text \in BulkTexts
       \/ ~use_pdfplumber /\ bulk_source = MissingFile /\ bulk_text = <<>>
    /\ bulk_tables = Returned(<<>>)
    /\ NormIdle
    /\ ValidIdle
    /\ AnchorIdle
    /\ MatchIdle
    /\ HeaderIdle
    /\ FileIdle
    /\ ParseIdle
    /\ WebIdle

\* one bulk extraction of one source
SpecBulk == BulkInit /\ [][BulkNext]_vars

\* the files of the run: a workbook for every thread, a text file and a file
\* that is no workbook
FileInit ==
    /\ FileStart
    /\ disk = [file_path \in FilePaths \ {Path(-1, ".xlsx")} |->
                  IF file_path = Path(0, ".xlsx") THEN 0 ELSE 1]
    /\ calls_left = [t \in Threads |-> IF t = 1 THEN MaxCalls ELSE IF t = 2 THEN 1 ELSE 0]
    /\ NormIdle
    /\ ValidIdle
    /\ AnchorIdle
    /\ MatchIdle
    /\ HeaderIdle
    /\ BulkIdle
    /\ ParseIdle
    /\ WebIdle

\* thread 1 makes MaxCalls calls of the manager and thread 2 makes one
SpecFile == FileInit /\ [][FileNext]_vars

OpensInit ==
    /\ FileStart
    /\ disk = [file_path \in FilePaths \ {Path(-1, ".xlsx")} |->
                  IF file_path = Path(0, ".xlsx") THEN 0 ELSE 1]
    /\ calls_left = [t \in Threads |-> 1]
    /\ NormIdle
    /\ ValidIdle
    /\ AnchorIdle
    /\ MatchIdle
    /\ HeaderIdle
    /\ BulkIdle
    /\ ParseIdle
    /\ WebIdle

\* MaxThreads threads open MaxThreads workbooks at the same time
SpecOpens == OpensInit /\ [][OpensNext]_vars

ParseInit ==
    /\ \/ parsePc = "lines" /\ parse_lines \in ParseLineLists /\ row_line = <<>>
       \/ parsePc = "row" /\ parse_lines = <<>> /\ row_line \in RowLines
    /\ parsed_table = <<>>
    /\ parsed_row = <<>>
    /\ NormIdle
    /\ ValidIdle
    /\ AnchorIdle
    /\ MatchIdle
    /\ HeaderIdle
    /\ BulkIdle
    /\ FileIdle
    /\ WebIdle

\* one call of a line parser on one input
SpecParse == ParseInit /\ [][ParseNext]_vars

SanitizeInit ==
    /\ sanPc \in {"web", "lambda"}
    /\ raw_data \in SanValues
    /\ sanitized = [type |-> "int", val |-> 1]
    /\ webPc = "idle"
    /\ driver = NoDriver
    /\ _active_drivers = {}
    /\ drivers_made = 0
    /\ setup_tries = 0
    /\ plan_of_starts = <<"ok", "ok">>
    /\ quit_fails = FALSE
    /\ cleanups = 0
    /\ web_result = Returned(<<>>)
    /\ extractions = 0
    /\ NormIdle
    /\ ValidIdle
    /\ AnchorIdle
    /\ MatchIdle
    /\ HeaderIdle
    /\ BulkIdle
    /\ FileIdle
    /\ ParseIdle

\* one call of sanitize_data on one value
SpecSanitize == SanitizeInit /\ [][SanitizeNext]_vars

\* lines 113-126: a new WebExtractor, and the registry of the module empty
WebInit ==
    /\ sanPc = "idle"
    /\ raw_data = [type |-> "int", val |-> 1]
    /\ sanitized = [type |-> "int", val |-> 1]
    /\ webPc = "ready"
    /\ driver = NoDriver
    /\ _active_drivers = {}
    /\ drivers_made = 0
    /\ setup_tries = 0
    /\ plan_of_starts = <<"ok", "ok">>
    /\ quit_fails = FALSE
    /\ cleanups = 0
    /\ web_result = Returned(<<>>)
    /\ extractions = 0
    /\ NormIdle
    /\ ValidIdle
    /\ AnchorIdle
    /\ MatchIdle
    /\ HeaderIdle
    /\ BulkIdle
    /\ FileIdle
    /\ ParseIdle

\* MaxExtractions calls of extract_table on one extractor, one after another
SpecWeb == WebInit /\ [][WebNext]_vars

ShutdownInit ==
    /\ FileStart
    /\ disk = [file_path \in FilePaths \ {Path(-1, ".xlsx")} |->
                  IF file_path = Path(0, ".xlsx") THEN 0 ELSE 1]
    /\ calls_left = [t \in Threads |-> IF t <= 2 THEN 1 ELSE 0]
    /\ NormIdle
    /\ ValidIdle
    /\ AnchorIdle
    /\ MatchIdle
    /\ HeaderIdle
    /\ BulkIdle
    /\ ParseIdle
    /\ WebIdle

\* two threads open a workbook each, and the manager is shut down at any
\* moment
SpecShutdown == ShutdownInit /\ [][ShutdownNext]_vars
-----------------------------------------------------------------------------
\* C1: normalising a normalised cell changes nothing:
\* _normalize_number_format(_normalize_number_format(s)) equals
\* _normalize_number_format(s) for every cell s.
C1_Idempotent == normPc = "renormalized" => renormalized = normalized

-----------------------------------------------------------------------------
\* The value of a string of decimal digits.
DigitOrder == <<"0", "1", "2", "3", "4", "5", "6", "7", "8", "9">>

RECURSIVE DecimalValue(_)
DecimalValue(s) ==
    IF s = <<>>
    THEN 0
    ELSE 10 * DecimalValue(SubSeq(s, 1, Len(s) - 1))
         + (CHOOSE d \in 0..9 : DigitOrder[d + 1] = s[Len(s)])

C10_BareYear(s) ==
    Len(s) = 4 /\ AllDigits(s) /\ DecimalValue(s) \in 1900..2099

C10_PageNumberLike(s) ==
    LET number == IF Len(s) >= 4 /\ SubSeq(s, 1, 4) = Page
                  THEN strip(SubSeq(s, 5, Len(s)))
                  ELSE s
    IN  \/ (AllDigits(s) /\ Len(s) <= 3)
        \/ (AllDigits(number) /\ Len(number) <= 3)

C10_MostlyLetters(s) ==
    /\ Len(s) > 10
    /\ Cardinality({i \in DOMAIN s : isalpha(s[i])})
           > Cardinality({i \in DOMAIN s : isdigit(s[i])})

C10_MeaningfulNumeric(c) ==
    LET s == lower(strip(c))
    IN  /\ \E i \in DOMAIN s : isdigit(s[i])
        /\ ~C10_BareYear(s)
        /\ ~C10_PageNumberLike(s)
        /\ ~C10_MostlyLetters(s)

C10_NonEmptyCells(table) ==
    {p \in UNION { {<<r, k>> : k \in DOMAIN table[r]} : r \in DOMAIN table } :
        strip(table[p[1]][p[2]]) # <<>>}

C10_NumericCells(table) ==
    {p \in C10_NonEmptyCells(table) : C10_MeaningfulNumeric(table[p[1]][p[2]])}

\* C10: the validator returns true iff the table has a non-empty cell and
\* (meaningful-numeric cells) / (non-empty cells) >= threshold, a cell being
\* meaningful-numeric iff it contains a digit and is no bare year 1900-2099,
\* no page-number-like token and no string longer than 10 characters with
\* more letters than digits; at the default threshold a table with at least
\* 30% such cells passes and a table with none fails.
C10_ValidatorIff ==
    /\ validPc = "classified" => (meaningful <=> C10_MeaningfulNumeric(probe))
    /\ validPc = "validated" =>
          LET total   == Cardinality(C10_NonEmptyCells(table_data))
              numeric == Cardinality(C10_NumericCells(table_data))
              th      == min_numerical_threshold
          IN  /\ valid <=> (total > 0 /\ numeric * th[2] >= th[1] * total)
              /\ th = DefaultThreshold /\ total > 0 /\ 10 * numeric >= 3 * total
                     => valid
              /\ th = DefaultThreshold /\ numeric = 0 => ~valid

\* a table that passes exactly at its threshold although it holds a cell
\* with digits (a year) that does not count
C10_Witness ==
    /\ validPc = "validated"
    /\ valid
    /\ min_numerical_threshold = <<1, 2>>
    /\ Cardinality(C10_NonEmptyCells(table_data)) = 2
    /\ Cardinality(C10_NumericCells(table_data)) = 1
    /\ \E r \in DOMAIN table_data : \E k \in DOMAIN table_data[r] :
           table_data[r][k] = <<"2", "0", "2", "4">>

-----------------------------------------------------------------------------
\* line i of the text holds the identifier, case-insensitively
C9_HoldsAnchor(i) ==
    Contains(lower(SplitLines(text_content)[i]), lower(table_identifier))

C9_AnchorLines == {i \in DOMAIN SplitLines(text_content) : C9_HoldsAnchor(i)}

\* the segmenter picks the lowest line that holds the anchor and parses
\* forward from it; with no such line it returns None and raises nothing
C9_Segmenter ==
    anchorPc = "found" =>
        IF C9_AnchorLines = {}
        THEN found = None
        ELSE LET lines == SplitLines(text_content)
                 first == CHOOSE i \in C9_AnchorLines :
                              \A k \in C9_AnchorLines : i <= k
             IN  found = Some(_parse_table_lines(SubSeq(lines, first, Len(lines))))

-----------------------------------------------------------------------------
(* Claims about match requests.                                            *)

\* the match request r has run the matcher on its candidates
MatcherRan(r) == pc[r] = "done" /\ calls[r] = 1

\* the '{'..'}' span of the reply to request r
ReplySpan(r) ==
    SubSeq(reply[r].text, FindLBrace(reply[r].text), RFindRBrace(reply[r].text))

\* the reply to request r has no '{'..'}' span that parses
Unparsable(r) ==
    \/ FindLBrace(reply[r].text) = 0
    \/ RFindRBrace(reply[r].text) = 0
    \/ ~JsonParses(ReplySpan(r))

\* the index the parsed reply to request r names
ReplyIndex(r) == Get(ReplySpan(r), "matching_table_index", JInt(-1))

\* the reply to request r parses and names a candidate by a JSON integer
NamesCandidate(r) ==
    /\ reply[r].kind = "text"
    /\ ~Unparsable(r)
    /\ HasKey(ReplySpan(r), "matching_table_index")
    /\ ReplyIndex(r).type = "int"
    /\ ReplyIndex(r).val >= 0
    /\ ReplyIndex(r).val < Len(candidates[r])

NoMatchResult(r) ==
    [ error            |-> <<"No table found matching the request", prompt[r]>>,
      success          |-> FALSE,
      available_tables |-> Len(candidates[r]) ]

\* C2: the matcher fails closed.  For a null reply, an empty text, a text
\* without braces, a span that does not parse, or a parsed object whose
\* index is missing, negative, not an integer or not below the number of
\* candidates, the matcher returns no table without raising and the request
\* ends in the no-match result.
C2_FailsClosed ==
    \A r \in requests :
        (MatcherRan(r) /\ reply[r].kind # "raises" /\ ~NamesCandidate(r)) =>
            /\ matching[r] = Returned(NoMatch)
            /\ result[r] = NoMatchResult(r)

\* a confidence that is a number within [0,1] (floats are in hundredths)
InUnitInterval(confidence) ==
    \/ confidence.type = "float" /\ confidence.val >= 0 /\ confidence.val <= 100
    \/ confidence.type = "int" /\ confidence.val \in {0, 1}

\* C3: the confidence in the result of a match request is a number within
\* [0,1], whatever confidence the service put in its reply.
C3_ConfidenceInRange ==
    \A r \in requests :
        (pc[r] = "done" /\ result[r].success) =>
            InUnitInterval(result[r].match_confidence)

\* C4: the choice of the service is authoritative.  When the reply parses to
\* an object whose index i has 0 <= i < number of candidates, candidate i is
\* the one selected, the result has all its rows, and the confidence and the
\* reasoning are those of the reply (0.8 and '' when the reply has none).
C4_Authoritative ==
    \A r \in requests :
        (MatcherRan(r) /\ NamesCandidate(r)) =>
            LET chosen == candidates[r][ReplyIndex(r).val + 1]
            IN  /\ matching[r].raised = ""
                /\ ~matching[r].value.none
                /\ matching[r].value.table.title = chosen.title
                /\ result[r].success
                /\ result[r].title = chosen.title
                /\ result[r].page_number = chosen.page_number
                /\ result[r].table_data = chosen.data
                /\ Len(result[r].table_data) = chosen.row_count
                /\ result[r].headers = chosen.headers
                /\ result[r].match_confidence =
                       Get(ReplySpan(r), "match_confidence", JFloat(80))
                /\ result[r].match_reasoning =
                       Get(ReplySpan(r), "match_reasoning", JStr(0))
                /\ result[r].total_tables_scanned = Len(candidates[r])

\* the second of two candidates, a table of more than three rows of which the
\* summary carried three, is selected with the confidence of the reply
C4_Witness ==
    \E r \in requests :
        /\ MatcherRan(r)
        /\ NamesCandidate(r)
        /\ Len(candidates[r]) = 2
        /\ ReplyIndex(r).val = 1
        /\ Len(sent[r].tables[2].sample_data) = 3
        /\ Len(result[r].table_data) > 3
        /\ result[r].match_confidence = JFloat(90)

\* why no table was selected for request r
FailureReason(r) ==
    IF Unparsable(r) THEN "parse failure" ELSE "index out of range"

\* C5: when no table is selected because the reply did not parse or named
\* an index out of range, the result has confidence 0.0 and its text names
\* the reason.
C5_FailureRecorded ==
    \A r \in requests :
        (MatcherRan(r) /\ reply[r].kind = "text" /\ reply[r].text # <<>>
            /\ (Unparsable(r) \/ ReplyIndex(r).type = "int") /\ ~NamesCandidate(r)) =>
            /\ "match_confidence" \in DOMAIN result[r]
            /\ result[r].match_confidence = JFloat(0)
            /\ FailureReason(r) \in Range(result[r].error)

\* the count of candidates a result shows, -1 when it shows none
CountSurfaced(res) ==
    IF "total_tables_scanned" \in DOMAIN res
    THEN res.total_tables_scanned
    ELSE IF "available_tables" \in DOMAIN res
    THEN res.available_tables
    ELSE -1

\* C6: every result of a match request that harvested candidates shows the
\* number of candidates extracted from the source.
C6_CountSurfaced ==
    \A r \in requests :
        (pc[r] = "done" /\ candidates[r] # <<>>) =>
            CountSurfaced(result[r]) =
                Len(extract_all_tables_from_pdf(source[r]).value)

\* C7: a match request over a non-empty candidate list invokes the service
\* exactly once, whatever the reply.
C7_ExactlyOnce ==
    \A r \in requests :
        /\ calls[r] <= 1
        /\ pc[r] = "replied" => calls[r] = 1
        /\ (pc[r] = "done" /\ candidates[r] # <<>> /\ client[r] # "unavailable")
              => calls[r] = 1

\* the service gave no reply, or one that selects nothing, and the request
\* ended after its one call
C7_Witness ==
    /\ \E r \in requests :
          /\ pc[r] = "done" /\ calls[r] = 1 /\ reply[r] = NoReply
          /\ result[r] = NoMatchResult(r)
    \/ \E r \in requests :
          /\ pc[r] = "done" /\ calls[r] = 1 /\ reply[r] = Reply(<<Prose>>)
          /\ result[r] = NoMatchResult(r)

\* C8: match requests are independent.  In every interleaving of two
\* requests the result of each is the result it has when run alone on its
\* source, request text, client and reply, and the candidate list of a
\* request stays the list extracted from its source.
C8_Independent ==
    \A r \in requests :
        /\ pc[r] = "done" =>
              result[r] = extract_tables_with_llm(source[r], prompt[r],
                                                  client[r], service[r])
        /\ candidates[r] \in { <<>>, extract_all_tables_from_pdf(source[r]).value }

\* one request failed on its reply and the other, on a different source,
\* selected a table
C8_Witness ==
    /\ requests = {1, 2}
    /\ source[1] # source[2]
    /\ pc[1] = "done" /\ pc[2] = "done"
    /\ calls[1] = 1 /\ ~result[1].success
    /\ reply[1] \in {NoReply, ServiceRaises, Reply(<<Prose>>)}
    /\ result[2].success

-----------------------------------------------------------------------------
(* Claims about the rules of the cell normaliser.                          *)

\* the normaliser has been applied to the cell
Normalised == normPc \in {"normalized", "renormalized"}

\* the text starts with '(' and ends with ')'
InParentheses(s) == Len(s) >= 2 /\ s[1] = "(" /\ s[Len(s)] = ")"

\* the text between the parentheses, currency symbols and commas removed
CleanedInterior(s) ==
    SelectSeq([k \in 1..(Len(s) - 2) |-> s[k + 1]],
              LAMBDA ch : ch \notin {"$", "€", "£", "¥", ","})

\* C11: the accounting-negative rule.  A cell wrapped in parentheses, with
\* no percent sign, whose interior without currency symbols and commas is
\* numeric, is normalised to a minus sign followed by that cleaned interior.
C11_AccountingNegative ==
    Normalised =>
        LET s == strip(cell)
        IN  (InParentheses(s) /\ "%" \notin Range(s) /\ PyFloat(CleanedInterior(s))) =>
                normalized = <<"-">> \o CleanedInterior(s)

\* '($5)' became '-5' and '(5,)' became '-5'
C11_Witness ==
    /\ Normalised
    /\ \/ cell = <<"(", "$", "5", ")">> /\ normalized = <<"-", "5">>
       \/ cell = <<"(", "5", ",", ")">> /\ normalized = <<"-", "5">>

\* the end of the numeric run that starts at i: digits and commas, an
\* optional decimal point, digits
RunEnd(s, i) ==
    LET j1 == SkipWhile(s, i, Digits \cup {","})
        j2 == IF j1 <= Len(s) /\ s[j1] = "." THEN j1 + 1 ELSE j1
    IN  SkipWhile(s, j2, Digits) - 1

\* a numeric run of the text starts at i and ends at the percent sign
RunBeforePercent(s, i) ==
    /\ s[i] \in Digits \cup {","}
    /\ RunEnd(s, i) < Len(s)
    /\ s[RunEnd(s, i) + 1] = "%"

HasRun(s) == \E i \in DOMAIN s : RunBeforePercent(s, i)

\* the leading numeric run of the text that a percent sign ends, its commas
\* removed
LeadingRun(s) ==
    LET i == CHOOSE i \in DOMAIN s :
                 /\ RunBeforePercent(s, i)
                 /\ \A k \in 1..(i - 1) : ~RunBeforePercent(s, k)
    IN  SelectSeq(SubSeq(s, i, RunEnd(s, i)), LAMBDA ch : ch # ",")

\* C12: the percent rule.  A cell with a percent sign is returned unchanged
\* when it is wrapped in parentheses; otherwise the result is its leading
\* numeric run, commas removed, followed by '%', and the cell unchanged when
\* it has no numeric run.
C12_PercentRule ==
    (Normalised /\ "%" \in Range(cell)) =>
        IF InParentheses(strip(cell))
        THEN normalized = cell
        ELSE IF HasRun(cell)
        THEN normalized = LeadingRun(cell) \o <<"%">>
        ELSE normalized = cell

\* the text without a trailing million marker: the word 'million', or 'm'
\* as a standalone suffix, with the whitespace before it
WithoutTrailingMillion(s) ==
    LET n == Len(s)
        cut(k) == LET head == SubSeq(s, 1, n - k)
                  IN  IF head = <<>> \/ strip(head) = <<>>
                      THEN <<>>
                      ELSE SubSeq(head, 1,
                                  CHOOSE j \in DOMAIN head :
                                     /\ head[j] \notin Whitespace
                                     /\ \A i \in (j + 1)..Len(head) :
                                            head[i] \in Whitespace)
    IN  IF n >= 7 /\ lower(SubSeq(s, n - 6, n)) = Million
        THEN cut(7)
        ELSE IF n >= 1 /\ LowerChar(s[n]) = "m" /\ (n = 1 \/ ~isalpha(s[n - 1]))
        THEN cut(1)
        ELSE s

\* C13: the plain-number rule.  For a cell with a digit that the dash,
\* percent and accounting-negative rules do not handle, currency symbols,
\* commas and a trailing million marker are removed; the remainder is
\* returned when it parses as a number, the original text otherwise.
C13_PlainNumber ==
    (/\ Normalised
     /\ \E i \in DOMAIN cell : cell[i] \in Digits
     /\ "%" \notin Range(cell)
     /\ ~(InParentheses(strip(cell)) /\ PyFloat(CleanedInterior(strip(cell))))) =>
        LET remainder ==
                WithoutTrailingMillion(
                    SelectSeq(cell, LAMBDA ch : ch \notin {"$", "€", "£", "¥", ","}))
        IN  normalized = IF PyFloat(remainder) THEN remainder ELSE cell

\* C14: passthrough.  A cell with no digit and no percent sign that is not
\* exactly '-' is returned exactly as it was given.
C14_Passthrough ==
    (/\ Normalised
     /\ \A i \in DOMAIN cell : cell[i] \notin Digits
     /\ "%" \notin Range(cell)
     /\ cell # <<"-">>) =>
        normalized = cell

-----------------------------------------------------------------------------
(* Row classification: C15, C16.                                           *)

Classified == headerPc \in {"classified", "distinguished"}

\* a four-digit year from 1900 to 2099 between two word boundaries
FourDigitYear(s) ==
    \E i \in 1..(Len(s) - 3) :
        /\ SubSeq(s, i, i + 1) \in {<<"1", "9">>, <<"2", "0">>}
        /\ isdigit(s[i + 2])
        /\ isdigit(s[i + 3])
        /\ BoundaryBefore(s, i)
        /\ BoundaryAfter(s, i + 3)

MonthNames ==
    { <<"j", "a", "n", "u", "a", "r", "y">>, <<"f", "e", "b", "r", "u", "a", "r", "y">>, <<"m", "a", "r", "c", "h">>, <<"a", "p", "r", "i", "l">>, <<"m", "a", "y">>, <<"j", "u", "n", "e">>, <<"j", "u", "l", "y">>,
      <<"a", "u", "g", "u", "s", "t">>, <<"s", "e", "p", "t", "e", "m", "b", "e", "r">>, <<"o", "c", "t", "o", "b", "e", "r">>, <<"n", "o", "v", "e", "m", "b", "e", "r">>, <<"d", "e", "c", "e", "m", "b", "e", "r">> }

\* time-period words, units, statement-section words and generic words
IndicatorWords ==
    { <<"y", "e", "a", "r">>, <<"q", "u", "a", "r", "t", "e", "r">>, <<"m", "o", "n", "t", "h">>,
      <<"a", "m", "o", "u", "n", "t">>, <<"v", "a", "l", "u", "e">>, <<"t", "o", "t", "a", "l">>, <<"b", "a", "l", "a", "n", "c", "e">>,
      <<"t", "h", "o", "u", "s", "a", "n", "d">>, <<"m", "i", "l", "l", "i", "o", "n">>, <<"b", "i", "l", "l", "i", "o", "n">>,
      <<"a", "s", "s", "e", "t", "s">>, <<"l", "i", "a", "b", "i", "l", "i", "t", "i", "e", "s">>, <<"e", "q", "u", "i", "t", "y">>,
      <<"l", "e", "v", "e", "l", " ", "1">>, <<"l", "e", "v", "e", "l", " ", "2">>, <<"l", "e", "v", "e", "l", " ", "3">>,
      <<"d", "e", "s", "c", "r", "i", "p", "t", "i", "o", "n">>, <<"t", "y", "p", "e">>, <<"c", "a", "t", "e", "g", "o", "r", "y">>,
      <<"f", "a", "i", "r", " ", "v", "a", "l", "u", "e">>, <<"b", "o", "o", "k", " ", "v", "a", "l", "u", "e">>, <<"m", "a", "r", "k", "e", "t", " ", "v", "a", "l", "u", "e">> }

MostlyText(cells) ==
    10 * Cardinality({k \in DOMAIN cells : ~_contains_number(cells[k])}) > 6 * Len(cells)

LooksLikeHeader(cells) ==
    LET row_text == lower(JoinFrom(cells, 1))
    IN  \/ \E word \in IndicatorWords \cup MonthNames : SearchWord(row_text, word, TRUE, TRUE)
        \/ FourDigitYear(row_text)
        \/ cells # <<>> /\ MostlyText(cells)

\* C15: _is_potential_header(row) is true iff the joined row text matches a
\* header-indicator pattern (time-period words, any four-digit year from 1900
\* to 2099, any month name, units, statement-section words, generic words) or
\* more than 60% of the row's cells contain no digit.
C15_HeaderIff ==
    Classified => (potential_header <=> LooksLikeHeader(header_row))

HasPrefix(s, p) == Len(s) >= Len(p) /\ SubSeq(s, 1, Len(p)) = p

\* '<month> <day>, <year>'
MonthDayYear(s) ==
    \E m \in MonthNames : \E d \in 1..2 :
        LET n == Len(m)
        IN  /\ Len(s) = n + d + 7
            /\ SubSeq(s, 1, n) = m
            /\ s[n + 1] = " "
            /\ AllDigits(SubSeq(s, n + 2, n + 1 + d))
            /\ SubSeq(s, n + 2 + d, n + 3 + d) = <<",", " ">>
            /\ FourDigitYear(SubSeq(s, n + 4 + d, n + 7 + d))

DatePhrase(c) ==
    LET s == lower(c)
    IN  \/ HasPrefix(s, <<"a", "s", " ", "o", "f", " ">>) /\ FourDigitYear(s)
        \/ MonthDayYear(s)
        \/ HasPrefix(s, <<"f", "o", "r", " ", "t", "h", "e", " ", "y", "e", "a", "r", " ", "e", "n", "d", "e", "d">>)
        \/ HasPrefix(s, <<"t", "h", "r", "e", "e", " ", "m", "o", "n", "t", "h", "s", " ", "e", "n", "d", "e", "d">>)

DataKeywords == { <<"r", "e", "v", "e", "n", "u", "e">>, <<"a", "s", "s", "e", "t", "s">>, <<"c", "a", "s", "h">>, <<"c", "o", "s", "t">>, <<"f", "l", "o", "w">>, <<"i", "n", "c", "o", "m", "e">> }

\* a data row that contains a year next to a data keyword
YearInDataRow(cells) ==
    \E k \in DOMAIN cells :
        /\ FourDigitYear(lower(cells[k]))
        /\ \E word \in DataKeywords : Contains(lower(cells[k]), word)

\* C16: the date-stamp predicate _distinguish_dates_from_data answers true for
\* a row of at most two cells whose first cell is a date phrase, and false
\* for a data row that contains a year next to a data keyword.
C16_DateStamp ==
    headerPc = "distinguished" =>
        /\ date_header.raised = ""
        /\ (Len(header_row) \in 1..2 /\ DatePhrase(header_row[1]))
               => date_header.value = TRUE
        /\ (YearInDataRow(header_row) /\ ~DatePhrase(header_row[1]))
               => date_header.value = FALSE
-----------------------------------------------------------------------------
(* Bulk extraction: C17, C18.                                              *)

BulkReturned == bulkPc = "done" /\ bulk_tables.raised = ""

\* the candidate has a row, and its counts are those of its data
CountsAgree(t) ==
    /\ Len(t.data) >= 1
    /\ t.row_count = Len(t.data)
    /\ t.column_count = Len(t.data[1])

\* every non-empty raw table of the document is returned with all its rows,
\* each as long as it was
RawRowsKept(pages, tables) ==
    \A p \in DOMAIN pages : \A j \in DOMAIN pages[p] :
        pages[p][j] # <<>> =>
            \E i \in DOMAIN tables :
                /\ tables[i].page_number = p
                /\ tables[i].table_index = j
                /\ Len(tables[i].data) = Len(pages[p][j])
                /\ \A r \in DOMAIN pages[p][j] :
                       Len(tables[i].data[r]) = Len(pages[p][j][r])

\* every table-like line that has a table-like neighbour is a row of a
\* returned table
LineRowsKept(lines, tables) ==
    \A i \in DOMAIN lines :
        ( /\ _line_looks_like_table_data(lines[i])
          /\ \/ i > 1 /\ _line_looks_like_table_data(lines[i - 1])
             \/ i < Len(lines) /\ _line_looks_like_table_data(lines[i + 1]) )
        => \E t \in DOMAIN tables : \E r \in DOMAIN tables[t].data :
               tables[t].data[r] = _parse_table_row(strip(lines[i]))

\* C17: every candidate table that bulk extraction returns, on the pdfplumber
\* path and on the text path, has at least one row, a row_count equal to the
\* number of its rows and a column_count equal to the length of its first
\* row, and rows shorter or longer than the first are kept.
C17_BulkTables ==
    BulkReturned =>
        /\ \A i \in DOMAIN bulk_tables.value : CountsAgree(bulk_tables.value[i])
        /\ use_pdfplumber => RawRowsKept(bulk_source.pages, bulk_tables.value)
        /\ ~use_pdfplumber => LineRowsKept(SplitLines(bulk_text), bulk_tables.value)

Ragged(t) == \E r \in DOMAIN t.data : Len(t.data[r]) # t.column_count

\* the text path returned a table with a row that is not as long as its
\* first row
C17_Witness ==
    /\ BulkReturned
    /\ ~use_pdfplumber
    /\ \E i \in DOMAIN bulk_tables.value : Ragged(bulk_tables.value[i])

\* C18: the row data a successful match returns is normalised: every cell of
\* table_data equals its own normalisation.
C18_ReturnedNormalised ==
    \A r \in requests :
        (pc[r] = "done" /\ result[r].success) =>
            \A i \in DOMAIN result[r].table_data :
                \A k \in DOMAIN result[r].table_data[i] :
                    _normalize_number_format(result[r].table_data[i][k])
                        = result[r].table_data[i][k]
-----------------------------------------------------------------------------
(* The Excel file registry: C19, C20.                                      *)

\* thread t has made its calls and is back from the last
Finished(t) == calls_left[t] = 0 /\ filePc[t] = "idle"

\* C19: when every thread opens its own valid file while the monitor runs,
\* every call returns a file id whose callback was called before the return,
\* and once all are back the registry holds one record for every thread, all
\* of them synced and open, and the callback was called once for each.
C19_ConcurrentOpens ==
    /\ \A t \in Threads :
           Finished(t) =>
               /\ returned[t].raised = ""
               /\ returned[t].value \in DOMAIN excel_registry
               /\ returned[t].value \in DOMAIN sync_events
    /\ (\A t \in Threads : Finished(t)) =>
           /\ Cardinality(DOMAIN excel_registry) = MaxThreads
           /\ \A t, u \in Threads : t # u => returned[t].value # returned[u].value
           /\ \A file_id \in DOMAIN excel_registry :
                  /\ excel_registry[file_id].sync_status = "synced"
                  /\ excel_registry[file_id].is_open
           /\ DOMAIN sync_events = DOMAIN excel_registry
           /\ \A file_id \in DOMAIN sync_events : sync_events[file_id] = 1

\* all threads are back from open_excel_file, two of them having called at
\* the same time, and the monitor holds the lock
C19_Witness ==
    /\ \A t \in Threads : Finished(t)
    /\ \E t, u \in Threads : t # u /\ returned[t].value[2] = returned[u].value[2]
    /\ sync_lock = -1

\* C20: whenever neither a call nor the monitor holds the lock, the metadata
\* file holds the records of the registry with the values of their fields,
\* so a manager made on the directory loads the registry as it is.
C20_MetadataCurrent ==
    sync_lock = 0 => _load_metadata(metadata_file) = excel_registry
-----------------------------------------------------------------------------
(* Signs and validation after normalisation: C30, C28.                     *)

\* digits and thousands commas from a digit on, with at most one point
NumericRun(s) ==
    /\ Len(s) >= 1
    /\ isdigit(s[1])
    /\ \A i \in DOMAIN s : isdigit(s[i]) \/ s[i] \in {",", "."}
    /\ Cardinality({i \in DOMAIN s : s[i] = "."}) <= 1
    /\ \A i \in DOMAIN s : s[i] = "," => \A j \in 1..i : s[j] # "."

\* a minus sign, a numeric run and an optional percent sign
SignedCell(s) ==
    /\ Len(s) >= 2
    /\ s[1] = "-"
    /\ \/ NumericRun(Tail(s))
       \/ endswith(s, "%") /\ NumericRun(SubSeq(s, 2, Len(s) - 1))

\* C30: normalisation never drops the sign: the normalised text of a cell
\* made of a minus sign, a numeric run and an optional percent sign begins
\* with the minus sign.
C30_SignKept ==
    (Normalised /\ SignedCell(cell)) => startswith(normalized, "-")

\* C28: validation does not depend on whether the cells were normalised
\* first: the validator accepts the normalised table iff it accepts the raw
\* one.
C28_ValidationCommutes ==
    validPc = "validated" =>
        ( _validate_table_has_numerical_data(_process_number_formats(table_data),
                                             min_numerical_threshold)
          <=> valid )
-----------------------------------------------------------------------------
(* Row splitting, stated over the positions of a line that separate cells. *)

\* the k-th smallest member of a set of positions
NthPosition(positions, k) ==
    CHOOSE a \in positions : Cardinality({b \in positions : b < a}) = k - 1

\* the trimmed, non-empty pieces of a line between the separating positions
PiecesBetween(line, seps) ==
    LET starts == {a \in DOMAIN line :
                      /\ a \notin seps
                      /\ (a = 1 \/ a - 1 \in seps)
                      /\ \E b \in a..Len(line) :
                             /\ \A j \in a..b : j \notin seps
                             /\ (b = Len(line) \/ b + 1 \in seps)
                             /\ \E j \in a..b : line[j] \notin Whitespace}
        EndOf(a) == CHOOSE b \in a..Len(line) :
                        /\ \A j \in a..b : j \notin seps
                        /\ (b = Len(line) \/ b + 1 \in seps)
    IN  [k \in 1..Cardinality(starts) |->
            strip(SubSeq(line, NthPosition(starts, k),
                         EndOf(NthPosition(starts, k))))]

\* the positions in a run of two or more blanks
InWideRun(line, blanks) ==
    {i \in DOMAIN line :
        /\ line[i] \in blanks
        /\ \/ (i > 1 /\ line[i - 1] \in blanks)
           \/ (i < Len(line) /\ line[i + 1] \in blanks)}

UnguardedCommas(line) ==
    {i \in DOMAIN line :
        line[i] = "," /\ ~(i < Len(line) /\ line[i + 1] \in Digits)}

\* the first of the four splits that has two cells or more, else the line
FirstSplit(line, wide, single) ==
    LET tabbed == PiecesBetween(line, {i \in DOMAIN line : line[i] = "\t"})
        commas == PiecesBetween(line, UnguardedCommas(line))
    IN  IF Len(wide) >= 2 THEN wide
        ELSE IF Len(tabbed) >= 2 THEN tabbed
        ELSE IF Len(commas) >= 2 THEN commas
        ELSE IF Len(single) >= 2 THEN single
        ELSE IF line # <<>> THEN <<line>> ELSE <<>>

\* every cell has a character, and a comma between two digits of the line
\* lies inside one cell
CellsWellFormed(line, cells) ==
    /\ \A k \in DOMAIN cells : cells[k] # <<>>
    /\ \A i \in 2..(Len(line) - 1) :
           (line[i] = "," /\ line[i - 1] \in Digits /\ line[i + 1] \in Digits)
               => \E k \in DOMAIN cells :
                      Contains(cells[k], SubSeq(line, i - 1, i + 1))

-----------------------------------------------------------------------------
(* Where the line parser stops, and what it does with header lines.        *)

\* the first line that is not blank and matches the end-of-table predicate,
\* 0 when there is none
FirstEndLine(lines) ==
    LET ends == {i \in DOMAIN lines :
                    strip(lines[i]) # <<>> /\ _is_table_end(strip(lines[i]))}
    IN  IF ends = {} THEN 0 ELSE NthPosition(ends, 1)

\* C23: _parse_table_lines stops at the first non-blank line that matches the
\* end-of-table predicate: the table it returns is the table of the lines up
\* to that line, and no row of a later line is in it
C23_StopsAtTableEnd ==
    (parsePc = "parsed" /\ FirstEndLine(parse_lines) > 0) =>
        parsed_table =
            _parse_table_lines(SubSeq(parse_lines, 1, FirstEndLine(parse_lines)))

\* the lines that are not blank and that _is_header_line takes for headers
HeaderLike(lines) ==
    {i \in DOMAIN lines :
        strip(lines[i]) # <<>> /\ _is_header_line(strip(lines[i]))}

\* the first line that is neither blank nor header-like, 0 when there is none
FirstDataLine(lines) ==
    LET data == {i \in DOMAIN lines : strip(lines[i]) # <<>>} \ HeaderLike(lines)
    IN  IF data = {} THEN 0 ELSE NthPosition(data, 1)

\* the header-like lines before the first data row, the last two of them
BufferedHeaders(lines) ==
    LET before == {i \in HeaderLike(lines) : i < FirstDataLine(lines)}
    IN  {i \in before : Cardinality({j \in before : j > i}) < 2}

\* C24: the header-like lines before the first data row are kept: the table
\* starts with the rows of the last two of them, in their order, and the
\* first data row follows (lines before which no end-of-table line stands)
C24_HeadersPrepended ==
    ( /\ parsePc = "parsed"
      /\ FirstDataLine(parse_lines) > 0
      /\ BufferedHeaders(parse_lines) # {}
      /\ FirstEndLine(parse_lines) \notin 1..(FirstDataLine(parse_lines) - 1) ) =>
        LET kept == BufferedHeaders(parse_lines)
            n    == Cardinality(kept)
        IN  /\ Len(parsed_table) > n
            /\ \A k \in 1..n :
                   parsed_table[k] =
                       _parse_table_row(strip(parse_lines[NthPosition(kept, k)]))
            /\ parsed_table[n + 1] =
                   _parse_table_row(strip(parse_lines[FirstDataLine(parse_lines)]))
-----------------------------------------------------------------------------
(* Exhaustive segmentation, stated as the runs of lines it is to return.   *)

\* the runs of two rows or more from line i on; `run` holds the rows of the
\* run in progress, `withEnd` says whether an end-of-table line is the last
\* row of the run it ends
RECURSIVE RunsFrom(_, _, _, _, _)
RunsFrom(lines, i, run, runs, withEnd) ==
    LET Closed(rs) == IF Len(rs) >= 2 THEN Append(runs, rs) ELSE runs
    IN  IF i > Len(lines)
        THEN Closed(run)
        ELSE LET line == strip(lines[i])
             IN  IF line = <<>> \/ ~_line_looks_like_table_data(line)
                 THEN RunsFrom(lines, i + 1, <<>>, Closed(run), withEnd)
                 ELSE IF _is_table_end(line)
                 THEN RunsFrom(lines, i + 1, <<>>,
                               Closed(IF withEnd
                                      THEN Append(run, _parse_table_row(line))
                                      ELSE run),
                               withEnd)
                 ELSE RunsFrom(lines, i + 1,
                               Append(run, _parse_table_row(line)), runs, withEnd)

\* the tables are these runs, numbered from 1 in their order
TablesAreRuns(tables, runs) ==
    /\ Len(tables) = Len(runs)
    /\ \A k \in DOMAIN tables :
           tables[k].table_index = k /\ tables[k].data = runs[k]

\* C22: _extract_all_tables_from_text returns the maximal runs of table-like
\* lines that have two rows or more, in source order and numbered 1..n; a
\* run ends at a blank line, at a line that fails the table-data test and at
\* a line that matches the end-of-table predicate (taken as the last row of
\* its run, or as no row), so no table has rows from both sides of one
C22_MaximalRuns ==
    (bulkPc = "done" /\ ~use_pdfplumber /\ bulk_tables.raised = "") =>
        \E withEnd \in BOOLEAN :
            TablesAreRuns(bulk_tables.value,
                          RunsFrom(SplitLines(bulk_text), 1, <<>>, <<>>, withEnd))
-----------------------------------------------------------------------------
(* The web extractor: C21, C26, C27.                                       *)

\* no text of the value, at any depth, starts with a formula character
RECURSIVE NoFormulaStart(_)
NoFormulaStart(data) ==
    IF data.type = "str"
    THEN data.val = <<>> \/ data.val[1] \notin {"=", "+", "-", "@"}
    ELSE IF data.type = "list"
    THEN \A i \in DOMAIN data.val : NoFormulaStart(data.val[i])
    ELSE IF data.type = "dict"
    THEN \A i \in DOMAIN data.val : NoFormulaStart(data.val[i][2])
    ELSE TRUE

\* C21: the string sanitize_data returns does not begin with '=', '+', '-'
\* or '@', and neither does a string nested in a list or dict it returns
C21_NoFormulaInjection ==
    sanPc = "sanitized" => NoFormulaStart(sanitized)

\* C26: on every outcome of extract_table, _cleanup has run exactly once when
\* the call is over, self.driver is None and no driver is left in
\* _active_drivers; it never runs twice in a call
C26_BrowserReleased ==
    /\ cleanups <= 1
    /\ webPc = "done" =>
           /\ cleanups = 1
           /\ driver = NoDriver
           /\ _active_drivers = {}

\* a call whose browser started and whose quit() raised is over
C26_Witness ==
    /\ webPc = "done"
    /\ quit_fails
    /\ drivers_made = extractions
    /\ cleanups = 1
    /\ web_result.raised = ""

\* C27: where webdriver.Chrome raises WebDriverException at the first start
\* and the second start would succeed, _setup_driver runs its body a second
\* time and returns with self.driver set; it raises only where both fail
C27_SetupRetried ==
    ( /\ webPc \in {"strategy", "finally", "done"}
      /\ plan_of_starts[1] = "no_browser"
      /\ plan_of_starts[2] = "ok" ) =>
        /\ setup_tries = 2
        /\ webPc = "strategy" => driver # NoDriver
        /\ drivers_made > 0
-----------------------------------------------------------------------------
(* The monitor and shutdown: C29.                                          *)

\* C29: once shutdown has returned, no step of the monitor changes the
\* registry or writes the metadata file
C29_MonitorQuiet ==
    [][ (shutdownPc = "returned" /\ (sync_lock = -1 \/ sync_lock' = -1))
            => /\ excel_registry' = excel_registry
               /\ metadata_file' = metadata_file ]_vars
=============================================================================
